---- MODULE Spec2Model ----
(***************************************************************************)
(* State-machine model of the photobooth layout designer                   *)
(* (components/TemplateDesigner.tsx) and of the hosts that embed it.       *)
(*                                                                         *)
(* Normalized coordinates (fractions of the canvas, IEEE doubles in the    *)
(* program) are fixed-point integers in units of 1/ONE.  ONE is chosen so  *)
(* that the program's literals (0.02, 0.03, 0.05, 0.3, 0.5, 0.55, 0.45)    *)
(* and one canvas pixel of every canvas size used below are whole units.   *)
(* Array identity (React compares hook dependencies and state with         *)
(* Object.is) is modelled by a ref stamp carried by each layout array.     *)
(* A React render follows every event handler: Render recomputes what the  *)
(* memoized callbacks capture and runs the effects.                        *)
(***************************************************************************)
EXTENDS Integers, Sequences, FiniteSets, TLC

\* ------------------------------------------------------------------ bounds

\* Number of new layout arrays (mutations of a template) in one behaviour.
MaxRef == 4
\* Number of object URLs handed out by URL.createObjectURL in one behaviour.
MaxUrl == 2
\* Number of undelivered onload events of one image source.
MaxPending == 2
\* Number of pollFolder calls that have not returned yet.
MaxPolls == 2
\* Number of startPolling calls in one behaviour.
MaxSessions == 2

\* ------------------------------------------------------- program constants

ONE == 24000
HANDLE_SIZE == 12
MIN_SLOT_SIZE == 480
SNAP_THRESHOLD_PX == 10
DefaultCanvas == [width |-> 800, height |-> 600]

ASPECT_RATIOS == {"Free", "1:1 (Square)", "3:2 (Landscape)", "2:3 (Portrait)",
                  "4:3 (Standard)", "3:4 (Portrait)", "16:9 (Wide)",
                  "9:16 (Story)", "4:5 (Social Portrait)", "5:4 (Social Landscape)"}

\* ratio.split(':').map(parseFloat): the two leading numbers of the key.
ParseRatio(key) ==
    CASE key = "1:1 (Square)" -> <<1, 1>>
      [] key = "3:2 (Landscape)" -> <<3, 2>>
      [] key = "2:3 (Portrait)" -> <<2, 3>>
      [] key = "4:3 (Standard)" -> <<4, 3>>
      [] key = "3:4 (Portrait)" -> <<3, 4>>
      [] key = "16:9 (Wide)" -> <<16, 9>>
      [] key = "9:16 (Story)" -> <<9, 16>>
      [] key = "4:5 (Social Portrait)" -> <<4, 5>>
      [] key = "5:4 (Social Landscape)" -> <<5, 4>>

\* ----------------------------------------------------------------- helpers

Min(a, b) == IF a < b THEN a ELSE b
Max(a, b) == IF a > b THEN a ELSE b
Abs(a) == IF a < 0 THEN 0 - a ELSE a

SeqMin(s) == CHOOSE m \in {s[i] : i \in 1..Len(s)} : \A i \in 1..Len(s) : m <= s[i]
SeqMax(s) == CHOOSE m \in {s[i] : i \in 1..Len(s)} : \A i \in 1..Len(s) : m >= s[i]

\* Array.prototype.includes on an array of ids.
Includes(ids, id) == \E i \in 1..Len(ids) : ids[i] = id

\* Array.prototype.filter, keeping order.
Filter(s, Keep(_)) == SelectSeq(s, Keep)

\* Array.prototype.map.
MapSeq(s, F(_)) == [i \in 1..Len(s) |-> F(s[i])]

\* Array.prototype.find by id, for callers that have checked HasId.
HasId(s, id) == \E i \in 1..Len(s) : s[i].id = id
ById(s, id) == s[CHOOSE i \in 1..Len(s) : s[i].id = id /\ \A j \in 1..(i - 1) : s[j].id # id]

Ids(s) == [i \in 1..Len(s) |-> s[i].id]

\* Division of doubles on the fixed-point grid.
Div(a, b) == a \div b

\* -------------------------------------------------------------- variables

VARIABLES
    layouts,             \* <<A, B>>: [ref, items], items a sequence of placeholders
    activeCanvasIdx,     \* 0 | 1
    exportSelection,     \* <<useA, useB>>
    frames,              \* <<srcA, srcB>>: an image source (index of imageSize) or NullSrc
    savedLayouts,        \* sequence of [id, name, placeholders]
    selectedIds,         \* sequence of ids
    canvasDimensions,    \* [width, height] in pixels
    guides,              \* sequence of [type, pos]
    clipboard,           \* sequence of placeholders
    history,             \* sequence of layouts pairs
    historyIndex,        \* the cursor, 0-based as in the program
    interaction,         \* the interaction ref
    pendingDecodes,      \* per image source, the Image objects whose onload has not fired
    imageSize,           \* image source -> [width, height] of the decoded image
    embedded,            \* props of the component
    initialPlaceholders,
    captured,            \* historyIndex closed over by each memoized callback
    emitted,             \* [flag: the last render called onPlaceholdersChange, value]
    now,                 \* Date.now()
    nextRef,             \* next array identity
    crashed,             \* a render threw (layouts is undefined)
    lastOp,              \* the handler that ran last: [name, arg, nsel]
    rt,                  \* observer of an undo/redo round trip: [phase, n, k, final]
    confirm,             \* the latest handleConfirm: [phase, calls, useA, useB, layouts,
                         \*   frames, args], args the arguments of onTemplateConfirm
    pointer,             \* position of the pointer-move event just handled, else <<0, 0>>
    hotFolder            \* the useHotFolder hook of the application: [session, interval,
                         \*   knownFiles, polls, delivered]

\* The state of the designer component.
designer == <<layouts, activeCanvasIdx, exportSelection, frames, savedLayouts,
          selectedIds, canvasDimensions, guides, clipboard, history,
          historyIndex, interaction, pendingDecodes, imageSize, embedded,
          initialPlaceholders, captured, emitted, now, nextRef, crashed, lastOp,
          rt, confirm, pointer>>

vars == <<designer, hotFolder>>

\* The derived state of the component body.
placeholders == layouts[activeCanvasIdx + 1].items
activeFrameSrc == frames[activeCanvasIdx + 1]

IdleInteraction ==
    [mode |-> "idle", activeHandle |-> "null", startNormX |-> 0, startNormY |-> 0,
     initialPlaceholders |-> <<>>]

EmptyLayouts(r) == <<[ref |-> r, items |-> <<>>], [ref |-> r - 1, items |-> <<>>]>>

Op(name, arg) == [name |-> name, arg |-> arg, nsel |-> Len(selectedIds)]

\* No handleConfirm has run yet; args is what onTemplateConfirm received.
NoArgs == [placeholders |-> <<>>, ratio |-> <<0, 0>>, frame |-> 0]
NoConfirm ==
    [phase |-> "none", calls |-> 0, useA |-> FALSE, useB |-> FALSE,
     layouts |-> <<<<>>, <<>>>>, frames |-> <<0, 0>>, args |-> NoArgs]

\* frames[i] === null
NullSrc == 0

\* A file of type image/png that does not decode (imageSize of its source).
Corrupt == [width |-> 0, height |-> 0]

\* Pixel sizes of the PNG files the operator uploads.
ImageSizes == {[width |-> 1200, height |-> 800], [width |-> 600, height |-> 1200]}

\* ------------------------------------------------------------------ render

\* The template pair as the claims speak of it: the two placeholder sequences.
Pair(ls) == <<ls[1].items, ls[2].items>>

\* The handlers that call recordHistory on every run.
RecordingOps == {"addPlaceholder", "addPreset", "removeSelected", "paste",
                 "nudgeSelected", "updateAspectRatio", "alignSelected", "loadLayout"}

\* Observer (no program state): follows a fresh session through n recording
\* operations, then n undos in a row, then n redos in a row.  Handlers that
\* record nothing and restore nothing (selection, copy, switch) do not count.
RoundTripStep ==
    LET op == lastOp'.name
        recorded == op \in RecordingOps \/ (op = "handleMouseUp" /\ historyIndex' > historyIndex)
        off == [phase |-> "off", n |-> 0, k |-> 0, final |-> <<<<>>, <<>>>>]
    IN  rt' =
          IF op \in {"copySelected", "selectAll", "switchCanvas", "handleMouseDown"} THEN rt
          ELSE CASE rt.phase = "ops" ->
                      IF recorded THEN [rt EXCEPT !.n = @ + 1, !.final = Pair(layouts')]
                      ELSE IF op = "undo" /\ rt.n > 0 THEN [rt EXCEPT !.phase = "undo", !.k = 1]
                      ELSE off
                 [] rt.phase = "undo" ->
                      IF op = "undo" /\ rt.k < rt.n THEN [rt EXCEPT !.k = @ + 1]
                      ELSE IF op = "redo" /\ rt.k = rt.n THEN [rt EXCEPT !.phase = "redo", !.k = 1]
                      ELSE off
                 [] rt.phase = "redo" ->
                      IF op = "redo" /\ rt.k < rt.n THEN [rt EXCEPT !.k = @ + 1]
                      ELSE off
                 [] OTHER -> off

\* What one React render recomputes after the handler's state updates.
\* useCallback keeps a callback (and the recordHistory, hence the historyIndex,
\* it closed over) until one of its dependencies changes identity:
\*   removeSelected [selectedIds, activeCanvasIdx], paste [clipboard, activeCanvasIdx],
\*   nudgeSelected [selectedIds, canvasDimensions, activeCanvasIdx],
\*   autoArrangeSelected [selectedIds, placeholders, activeCanvasIdx].
\* The emit effect [embedded, placeholders, onPlaceholdersChange] runs when the
\* active layout array changed identity and calls the host if it is not empty.
Render(selSet, clipSet, dimsSet) ==
    LET actSet == activeCanvasIdx' # activeCanvasIdx
        phSet == layouts'[activeCanvasIdx' + 1].ref # layouts[activeCanvasIdx + 1].ref
        recap(old, changed) == IF changed THEN historyIndex' ELSE old
    IN  /\ captured' =
              [remove |-> recap(captured.remove, selSet \/ actSet),
               paste |-> recap(captured.paste, clipSet \/ actSet),
               nudge |-> recap(captured.nudge, selSet \/ dimsSet \/ actSet),
               auto |-> recap(captured.auto, selSet \/ phSet \/ actSet)]
        /\ emitted' =
              IF embedded /\ phSet /\ Len(layouts'[activeCanvasIdx' + 1].items) > 0
              THEN [flag |-> TRUE, value |-> layouts'[activeCanvasIdx' + 1].items]
              ELSE [flag |-> FALSE, value |-> emitted.value]
        /\ RoundTripStep
        /\ IF lastOp'.name \in {"handleConfirm", "confirmDecoded", "confirmRejected"}
           THEN TRUE ELSE confirm' = confirm
        /\ IF lastOp'.name = "handleMouseMove" THEN TRUE ELSE pointer' = <<0, 0>>
        /\ UNCHANGED hotFolder

\* useEffect [activeFrameSrc]: start a decode of the new source, or fall back to
\* the default canvas.  The Image is never cancelled.  TRUE in the second
\* component iff setCanvasDimensions was called.
LoadFrameRuns == frames'[activeCanvasIdx' + 1] # activeFrameSrc

LoadFrameEffect ==
    LET src == frames'[activeCanvasIdx' + 1]
    IN  IF ~LoadFrameRuns
        THEN UNCHANGED <<canvasDimensions, pendingDecodes>>
        ELSE IF src # NullSrc
             THEN /\ pendingDecodes[src] < MaxPending
                  /\ pendingDecodes' = [pendingDecodes EXCEPT ![src] = @ + 1]
                  /\ UNCHANGED canvasDimensions
             ELSE /\ canvasDimensions' = DefaultCanvas
                  /\ UNCHANGED pendingDecodes

LoadFrameSetsDims == LoadFrameRuns /\ frames'[activeCanvasIdx' + 1] = NullSrc

\* ----------------------------------------------------------------- history

\* recordHistory as closed over with historyIndex = capIdx.
recordHistory(newLayouts, capIdx) ==
    /\ history' = Append(SubSeq(history, 1, Min(capIdx + 1, Len(history))), newLayouts)
    /\ historyIndex' = historyIndex + 1

\* updateCurrentPlaceholders writing into the current array instead of
\* replacing it.
updateCurrentPlaceholders_inPlace(nextItems, record, capIdx) ==
    /\ nextRef < MaxRef
    /\ layouts' = [layouts EXCEPT ![activeCanvasIdx + 1].items = nextItems]
    /\ nextRef' = nextRef + 1
    /\ IF record
       THEN /\ history' = Append(SubSeq(history, 1, Min(capIdx + 1, Len(history))), layouts')
            /\ historyIndex' = historyIndex + 1
       ELSE UNCHANGED <<history, historyIndex>>

\* updateCurrentPlaceholders: every caller's updater builds a new array
\* (map, filter, spread), so nextLayout === currentLayout is never true.
updateCurrentPlaceholders(nextItems, record, capIdx) ==
    /\ nextRef < MaxRef
    /\ layouts' = [layouts EXCEPT ![activeCanvasIdx + 1] =
                       [ref |-> nextRef, items |-> nextItems]]
    /\ nextRef' = nextRef + 1
    /\ IF record THEN recordHistory(layouts', capIdx)
       ELSE UNCHANGED <<history, historyIndex>>

undo ==
    /\ ~crashed
    /\ lastOp' = Op("undo", "")
    /\ IF historyIndex > 0
       THEN /\ historyIndex' = historyIndex - 1
            /\ IF historyIndex <= Len(history)
               THEN layouts' = history[historyIndex] /\ UNCHANGED crashed
               ELSE crashed' = TRUE /\ UNCHANGED layouts
            /\ selectedIds' = <<>>
       ELSE UNCHANGED <<historyIndex, layouts, crashed, selectedIds>>
    /\ UNCHANGED <<activeCanvasIdx, exportSelection, frames, savedLayouts,
                   canvasDimensions, guides, clipboard, history, interaction,
                   pendingDecodes, imageSize, embedded, initialPlaceholders,
                   now, nextRef>>
    /\ Render(historyIndex > 0, FALSE, FALSE)

\* redo guarded by historyIndex <= history.length - 1: at the last entry it
\* steps the cursor past the end and restores an undefined entry.
redo_offByOne ==
    /\ ~crashed
    /\ lastOp' = Op("redo", "")
    /\ IF historyIndex <= Len(history) - 1
       THEN /\ historyIndex' = historyIndex + 1
            /\ IF historyIndex < Len(history) - 1
               THEN layouts' = history[historyIndex + 2] /\ UNCHANGED crashed
               ELSE crashed' = TRUE /\ UNCHANGED layouts
            /\ selectedIds' = <<>>
       ELSE UNCHANGED <<historyIndex, layouts, selectedIds, crashed>>
    /\ UNCHANGED <<activeCanvasIdx, exportSelection, frames, savedLayouts,
                   canvasDimensions, guides, clipboard, history, interaction,
                   pendingDecodes, imageSize, embedded, initialPlaceholders,
                   now, nextRef>>
    /\ Render(historyIndex <= Len(history) - 1, FALSE, FALSE)

redo ==
    /\ ~crashed
    /\ lastOp' = Op("redo", "")
    /\ IF historyIndex < Len(history) - 1
       THEN /\ historyIndex' = historyIndex + 1
            /\ layouts' = history[historyIndex + 2]
            /\ selectedIds' = <<>>
       ELSE UNCHANGED <<historyIndex, layouts, selectedIds>>
    /\ UNCHANGED <<activeCanvasIdx, exportSelection, frames, savedLayouts,
                   canvasDimensions, guides, clipboard, history, interaction,
                   pendingDecodes, imageSize, embedded, initialPlaceholders,
                   now, nextRef, crashed>>
    /\ Render(historyIndex < Len(history) - 1, FALSE, FALSE)

\* switchCanvas that starts a new timeline for the template switched to.
switchCanvas_newTimeline(idx) ==
    /\ ~crashed
    /\ activeCanvasIdx' = idx
    /\ selectedIds' = <<>>
    /\ history' = <<layouts>>
    /\ historyIndex' = 0
    /\ lastOp' = Op("switchCanvas", IF idx = 0 THEN "A" ELSE "B")
    /\ UNCHANGED <<layouts, exportSelection, frames, savedLayouts, guides,
                   clipboard, interaction, imageSize,
                   embedded, initialPlaceholders, now, nextRef, crashed>>
    /\ LoadFrameEffect
    /\ Render(TRUE, FALSE, LoadFrameSetsDims)

\* switchCanvas without the setSelectedIds([]).
switchCanvas_keepsSelection(idx) ==
    /\ ~crashed
    /\ activeCanvasIdx' = idx
    /\ lastOp' = Op("switchCanvas", IF idx = 0 THEN "A" ELSE "B")
    /\ UNCHANGED <<layouts, exportSelection, frames, savedLayouts, guides,
                   clipboard, history, historyIndex, interaction, imageSize,
                   embedded, initialPlaceholders, now, nextRef, crashed,
                   selectedIds>>
    /\ LoadFrameEffect
    /\ Render(FALSE, FALSE, LoadFrameSetsDims)

switchCanvas(idx) ==
    /\ ~crashed
    /\ activeCanvasIdx' = idx
    /\ selectedIds' = <<>>
    /\ lastOp' = Op("switchCanvas", IF idx = 0 THEN "A" ELSE "B")
    /\ UNCHANGED <<layouts, exportSelection, frames, savedLayouts, guides,
                   clipboard, history, historyIndex, interaction, imageSize,
                   embedded, initialPlaceholders, now, nextRef, crashed>>
    /\ LoadFrameEffect
    /\ Render(TRUE, FALSE, LoadFrameSetsDims)

\* ----------------------------------------------------------------- editing

isSelected(p) == Includes(selectedIds, p.id)
selectedItems == Filter(placeholders, isSelected)

Slot(id, x, y, w, h) ==
    [id |-> id, x |-> x, y |-> y, width |-> w, height |-> h,
     aspectRatio |-> "null", fit |-> "cover"]

addPlaceholder(dt) ==
    /\ ~crashed
    /\ LET newId == now + dt
           w == Div(3 * ONE, 10)
           h == Div(w * canvasDimensions.width, canvasDimensions.height)
           newPlaceholder == Slot(newId, Div(ONE, 2) - Div(w, 2), Div(ONE, 2) - Div(h, 2), w, h)
       IN  /\ updateCurrentPlaceholders(Append(placeholders, newPlaceholder), TRUE, historyIndex)
           /\ selectedIds' = <<newId>>
           /\ now' = newId
    /\ lastOp' = Op("addPlaceholder", "")
    /\ UNCHANGED <<activeCanvasIdx, exportSelection, frames, savedLayouts,
                   canvasDimensions, guides, clipboard, interaction,
                   pendingDecodes, imageSize, embedded, initialPlaceholders, crashed>>
    /\ Render(TRUE, FALSE, FALSE)

PresetKinds == {"1x1", "2x2", "1over2", "strip3", "strip4", "stripHorizontal"}

PresetSlots(type, baseId) ==
    LET margin == Div(5 * ONE, 100)
        gap == Div(3 * ONE, 100)
        availW == ONE - margin * 2
        availH == ONE - margin * 2
    IN  CASE type = "1x1" -> <<Slot(baseId, margin, margin, availW, availH)>>
          [] type = "2x2" ->
                LET w == Div(availW - gap, 2)
                    h == Div(availH - gap, 2)
                IN  [k \in 1..4 |->
                        LET r == (k - 1) \div 2
                            c == (k - 1) % 2
                        IN  Slot(baseId + r * 2 + c, margin + c * (w + gap),
                                 margin + r * (h + gap), w, h)]
          [] type = "1over2" ->
                LET topH == Div((availH - gap) * 55, 100)
                    botH == Div((availH - gap) * 45, 100)
                    botW == Div(availW - gap, 2)
                IN  <<Slot(baseId, margin, margin, availW, topH),
                      Slot(baseId + 1, margin, margin + topH + gap, botW, botH),
                      Slot(baseId + 2, margin + botW + gap, margin + topH + gap, botW, botH)>>
          [] type = "strip3" ->
                LET h == Div(availH - gap * 2, 3)
                IN  [k \in 1..3 |-> Slot(baseId + (k - 1), margin,
                                         margin + (k - 1) * (h + gap), availW, h)]
          [] type = "strip4" ->
                LET h == Div(availH - gap * 3, 4)
                IN  [k \in 1..4 |-> Slot(baseId + (k - 1), margin,
                                         margin + (k - 1) * (h + gap), availW, h)]
          [] type = "stripHorizontal" ->
                LET w == Div(availW - gap * 2, 3)
                IN  [k \in 1..3 |-> Slot(baseId + (k - 1), margin + (k - 1) * (w + gap),
                                         margin, w, availH)]

\* addPreset adding the preset's slots after the ones the template has.
addPreset_append(type, dt) ==
    /\ ~crashed
    /\ updateCurrentPlaceholders(placeholders \o PresetSlots(type, now + dt), TRUE, historyIndex)
    /\ selectedIds' = <<>>
    /\ now' = now + dt
    /\ lastOp' = Op("addPreset", type)
    /\ UNCHANGED <<activeCanvasIdx, exportSelection, frames, savedLayouts,
                   canvasDimensions, guides, clipboard, interaction,
                   pendingDecodes, imageSize, embedded, initialPlaceholders, crashed>>
    /\ Render(TRUE, FALSE, FALSE)

addPreset(type, dt) ==
    /\ ~crashed
    /\ updateCurrentPlaceholders(PresetSlots(type, now + dt), TRUE, historyIndex)
    /\ selectedIds' = <<>>
    /\ now' = now + dt
    /\ lastOp' = Op("addPreset", type)
    /\ UNCHANGED <<activeCanvasIdx, exportSelection, frames, savedLayouts,
                   canvasDimensions, guides, clipboard, interaction,
                   pendingDecodes, imageSize, embedded, initialPlaceholders, crashed>>
    /\ Render(TRUE, FALSE, FALSE)

\* Memoized: records through the recordHistory it captured.
removeSelected ==
    /\ ~crashed
    /\ Len(selectedIds) > 0
    /\ LET keep(p) == ~isSelected(p)
       IN  updateCurrentPlaceholders(Filter(placeholders, keep), TRUE, captured.remove)
    /\ selectedIds' = <<>>
    /\ lastOp' = Op("removeSelected", "")
    /\ UNCHANGED <<activeCanvasIdx, exportSelection, frames, savedLayouts,
                   canvasDimensions, guides, clipboard, interaction,
                   pendingDecodes, imageSize, embedded, initialPlaceholders,
                   now, crashed>>
    /\ Render(TRUE, FALSE, FALSE)

copySelected ==
    /\ ~crashed
    /\ Len(selectedItems) > 0
    /\ clipboard' = selectedItems
    /\ lastOp' = Op("copySelected", "")
    /\ UNCHANGED <<layouts, activeCanvasIdx, exportSelection, frames, savedLayouts,
                   selectedIds, canvasDimensions, guides, history, historyIndex,
                   interaction, pendingDecodes, imageSize, embedded,
                   initialPlaceholders, now, nextRef, crashed>>
    /\ Render(FALSE, TRUE, FALSE)

\* Memoized: records through the recordHistory it captured.
paste(dt) ==
    /\ ~crashed
    /\ Len(clipboard) # 0
    /\ LET offset == Div(2 * ONE, 100)
           newItems == [i \in 1..Len(clipboard) |->
                           [clipboard[i] EXCEPT
                               !.id = now + dt + (i - 1),
                               !.x = Min(ONE - clipboard[i].width, clipboard[i].x + offset),
                               !.y = Min(ONE - clipboard[i].height, clipboard[i].y + offset)]]
       IN  /\ updateCurrentPlaceholders(placeholders \o newItems, TRUE, captured.paste)
           /\ selectedIds' = Ids(newItems)
    /\ now' = now + dt
    /\ lastOp' = Op("paste", "")
    /\ UNCHANGED <<activeCanvasIdx, exportSelection, frames, savedLayouts,
                   canvasDimensions, guides, clipboard, interaction,
                   pendingDecodes, imageSize, embedded, initialPlaceholders, crashed>>
    /\ Render(TRUE, FALSE, FALSE)

\* Arrow keys (1 px, 10 px with shift) and the panel's arrow buttons (5 px).
NudgeArgs == {<<1, 0>>, <<0, 10>>, <<0 - 5, 0>>}
NudgeName(d) == IF d[1] > 0 THEN "right" ELSE IF d[1] < 0 THEN "left"
                ELSE IF d[2] > 0 THEN "down" ELSE "up"

\* Memoized: records through the recordHistory it captured.
nudgeSelected(dxPx, dyPx) ==
    /\ ~crashed
    /\ Len(selectedIds) > 0
    /\ LET dx == Div(dxPx * ONE, canvasDimensions.width)
           dy == Div(dyPx * ONE, canvasDimensions.height)
           nudge(p) == IF isSelected(p)
                       THEN [p EXCEPT !.x = Max(0, Min(ONE - p.width, p.x + dx)),
                                      !.y = Max(0, Min(ONE - p.height, p.y + dy))]
                       ELSE p
       IN  updateCurrentPlaceholders(MapSeq(placeholders, nudge), TRUE, captured.nudge)
    /\ lastOp' = Op("nudgeSelected", NudgeName(<<dxPx, dyPx>>))
    /\ UNCHANGED <<activeCanvasIdx, exportSelection, frames, savedLayouts,
                   selectedIds, canvasDimensions, guides, clipboard, interaction,
                   pendingDecodes, imageSize, embedded, initialPlaceholders,
                   now, crashed>>
    /\ Render(FALSE, FALSE, FALSE)

\* Ctrl/Cmd+A in handleKeyDown.
selectAll ==
    /\ ~crashed
    /\ selectedIds' = Ids(placeholders)
    /\ lastOp' = Op("selectAll", "")
    /\ UNCHANGED <<layouts, activeCanvasIdx, exportSelection, frames, savedLayouts,
                   canvasDimensions, guides, clipboard, history, historyIndex,
                   interaction, pendingDecodes, imageSize, embedded,
                   initialPlaceholders, now, nextRef, crashed>>
    /\ Render(TRUE, FALSE, FALSE)

\* The properties panel takes no pointer events without a selection.
updateAspectRatio(ratioKey) ==
    /\ ~crashed
    /\ Len(selectedIds) > 0
    /\ LET lock(p) ==
               IF ~isSelected(p) THEN p
               ELSE IF ratioKey = "Free" THEN [p EXCEPT !.aspectRatio = "null"]
               ELSE LET r == ParseRatio(ratioKey)
                        newHeight == Div(p.width * canvasDimensions.width * r[2],
                                         r[1] * canvasDimensions.height)
                    IN  [p EXCEPT !.aspectRatio = ratioKey, !.height = newHeight]
       IN  updateCurrentPlaceholders(MapSeq(placeholders, lock), TRUE, historyIndex)
    /\ lastOp' = Op("updateAspectRatio", ratioKey)
    /\ UNCHANGED <<activeCanvasIdx, exportSelection, frames, savedLayouts,
                   selectedIds, canvasDimensions, guides, clipboard, interaction,
                   pendingDecodes, imageSize, embedded, initialPlaceholders,
                   now, crashed>>
    /\ Render(FALSE, FALSE, FALSE)

Alignments == {"left", "center", "right", "top", "middle", "bottom"}

\* Align that takes the canvas as target whatever the number of selected
\* placeholders.
alignSelected_toCanvas(alignment) ==
    /\ ~crashed
    /\ Len(selectedIds) # 0
    /\ Len(selectedItems) # 0
    /\ LET xs == MapSeq(selectedItems, LAMBDA p : p.x)
           rs == MapSeq(selectedItems, LAMBDA p : p.x + p.width)
           ys == MapSeq(selectedItems, LAMBDA p : p.y)
           bs == MapSeq(selectedItems, LAMBDA p : p.y + p.height)
           bounds == [minX |-> SeqMin(xs), maxX |-> SeqMax(rs),
                      minY |-> SeqMin(ys), maxY |-> SeqMax(bs)]
           centerX == Div(bounds.minX + bounds.maxX, 2)
           centerY == Div(bounds.minY + bounds.maxY, 2)
           target == "canvas"
           newX(p) ==
               IF target = "canvas"
               THEN CASE alignment = "left" -> 0
                      [] alignment = "center" -> Div(ONE, 2) - Div(p.width, 2)
                      [] alignment = "right" -> ONE - p.width
                      [] OTHER -> p.x
               ELSE CASE alignment = "left" -> bounds.minX
                      [] alignment = "center" -> centerX - Div(p.width, 2)
                      [] alignment = "right" -> bounds.maxX - p.width
                      [] OTHER -> p.x
           newY(p) ==
               IF target = "canvas"
               THEN CASE alignment = "top" -> 0
                      [] alignment = "middle" -> Div(ONE, 2) - Div(p.height, 2)
                      [] alignment = "bottom" -> ONE - p.height
                      [] OTHER -> p.y
               ELSE CASE alignment = "top" -> bounds.minY
                      [] alignment = "middle" -> centerY - Div(p.height, 2)
                      [] alignment = "bottom" -> bounds.maxY - p.height
                      [] OTHER -> p.y
           align(p) == IF ~isSelected(p) THEN p
                       ELSE [p EXCEPT !.x = newX(p), !.y = newY(p)]
       IN  updateCurrentPlaceholders(MapSeq(placeholders, align), TRUE, historyIndex)
    /\ lastOp' = Op("alignSelected", alignment)
    /\ UNCHANGED <<activeCanvasIdx, exportSelection, frames, savedLayouts,
                   selectedIds, canvasDimensions, guides, clipboard, interaction,
                   pendingDecodes, imageSize, embedded, initialPlaceholders,
                   now, crashed>>
    /\ Render(FALSE, FALSE, FALSE)

alignSelected(alignment) ==
    /\ ~crashed
    /\ Len(selectedIds) # 0
    /\ Len(selectedItems) # 0
    /\ LET xs == MapSeq(selectedItems, LAMBDA p : p.x)
           rs == MapSeq(selectedItems, LAMBDA p : p.x + p.width)
           ys == MapSeq(selectedItems, LAMBDA p : p.y)
           bs == MapSeq(selectedItems, LAMBDA p : p.y + p.height)
           bounds == [minX |-> SeqMin(xs), maxX |-> SeqMax(rs),
                      minY |-> SeqMin(ys), maxY |-> SeqMax(bs)]
           centerX == Div(bounds.minX + bounds.maxX, 2)
           centerY == Div(bounds.minY + bounds.maxY, 2)
           target == IF Len(selectedItems) = 1 THEN "canvas" ELSE "selection"
           newX(p) ==
               IF target = "canvas"
               THEN CASE alignment = "left" -> 0
                      [] alignment = "center" -> Div(ONE, 2) - Div(p.width, 2)
                      [] alignment = "right" -> ONE - p.width
                      [] OTHER -> p.x
               ELSE CASE alignment = "left" -> bounds.minX
                      [] alignment = "center" -> centerX - Div(p.width, 2)
                      [] alignment = "right" -> bounds.maxX - p.width
                      [] OTHER -> p.x
           newY(p) ==
               IF target = "canvas"
               THEN CASE alignment = "top" -> 0
                      [] alignment = "middle" -> Div(ONE, 2) - Div(p.height, 2)
                      [] alignment = "bottom" -> ONE - p.height
                      [] OTHER -> p.y
               ELSE CASE alignment = "top" -> bounds.minY
                      [] alignment = "middle" -> centerY - Div(p.height, 2)
                      [] alignment = "bottom" -> bounds.maxY - p.height
                      [] OTHER -> p.y
           align(p) == IF ~isSelected(p) THEN p
                       ELSE [p EXCEPT !.x = newX(p), !.y = newY(p)]
       IN  updateCurrentPlaceholders(MapSeq(placeholders, align), TRUE, historyIndex)
    /\ lastOp' = Op("alignSelected", alignment)
    /\ UNCHANGED <<activeCanvasIdx, exportSelection, frames, savedLayouts,
                   selectedIds, canvasDimensions, guides, clipboard, interaction,
                   pendingDecodes, imageSize, embedded, initialPlaceholders,
                   now, crashed>>
    /\ Render(FALSE, FALSE, FALSE)

\* Array.prototype.sort with the comparator Key(a) - Key(b) (stable).
SortBy(s, Key(_)) ==
    LET rank(i) == Cardinality({j \in 1..Len(s) :
                                   Key(s[j]) < Key(s[i]) \/ (Key(s[j]) = Key(s[i]) /\ j < i)})
    IN  [k \in 1..Len(s) |-> s[CHOOSE i \in 1..Len(s) : rank(i) = k - 1]]

\* reduce((sum, p) => sum + ..., 0) over the first m numbers of s.
SumTo(s, m) ==
    LET acc[i \in 0..Len(s)] == IF i = 0 THEN 0 ELSE acc[i - 1] + s[i]
    IN  acc[m]

\* gap = totalGap / (n - 1) computed as totalGap / n.
DistributeGap_byCount(totalGap, n) == Div(totalGap, n)

\* const gap = totalGap / (selectedItems.length - 1)
DistributeGap(totalGap, n) == Div(totalGap, n - 1)

\* The Distribute buttons are disabled below three selected ids.  With no
\* selected placeholder in the active template, first.x throws a TypeError
\* out of the click handler before any state is set.
distributeSelected(axis) ==
    /\ ~crashed
    /\ Len(selectedIds) >= 3
    /\ lastOp' = Op("distributeSelected", IF Len(selectedItems) = 0 THEN "TypeError" ELSE axis)
    /\ LET lead(p) == IF axis = "horizontal" THEN p.x ELSE p.y
           size(p) == IF axis = "horizontal" THEN p.width ELSE p.height
           sorted == SortBy(selectedItems, lead)
           n == Len(sorted)
       IN  IF n = 0
           THEN UNCHANGED <<layouts, nextRef, history, historyIndex>>
           ELSE LET first == sorted[1]
                    last == sorted[n]
                    innerItems == SubSeq(sorted, 2, n - 1)
                    innerSizes == MapSeq(innerItems, size)
                    startEdge == lead(first) + size(first)
                    endEdge == lead(last)
                    totalGap == endEdge - startEdge - SumTo(innerSizes, Len(innerSizes))
                    gap == IF Len(innerItems) = 0 THEN 0 ELSE DistributeGap(totalGap, n)
                    \* updates.get(id): the last write for an id wins
                    at(j) == startEdge + gap + SumTo(innerSizes, j - 1) + (j - 1) * gap
                    hasUpdate(p) == HasId(innerItems, p.id)
                    lastOf(p) == CHOOSE j \in 1..Len(innerItems) :
                                     /\ innerItems[j].id = p.id
                                     /\ \A m \in (j + 1)..Len(innerItems) : innerItems[m].id # p.id
                    place(p) == IF ~hasUpdate(p) THEN p
                                ELSE IF axis = "horizontal" THEN [p EXCEPT !.x = at(lastOf(p))]
                                ELSE [p EXCEPT !.y = at(lastOf(p))]
                IN  updateCurrentPlaceholders(MapSeq(placeholders, place), TRUE, historyIndex)
    /\ UNCHANGED <<activeCanvasIdx, exportSelection, frames, savedLayouts,
                   selectedIds, canvasDimensions, guides, clipboard, interaction,
                   pendingDecodes, imageSize, embedded, initialPlaceholders,
                   now, crashed>>
    /\ Render(FALSE, FALSE, FALSE)

\* ------------------------------------------------------------ saved layouts

\* Save with `name` typed in the name field (setLayoutName): the record keeps
\* the active template's array itself, not a copy.
saveLayout(name, dt) ==
    /\ ~crashed
    /\ name # ""
    /\ savedLayouts' = Append(savedLayouts,
                              [id |-> now + dt, name |-> name,
                               placeholders |-> layouts[activeCanvasIdx + 1]])
    /\ now' = now + dt
    /\ lastOp' = Op("saveLayout", name)
    /\ UNCHANGED <<layouts, activeCanvasIdx, exportSelection, frames, selectedIds,
                   canvasDimensions, guides, clipboard, history, historyIndex,
                   interaction, pendingDecodes, imageSize, embedded,
                   initialPlaceholders, nextRef, crashed>>
    /\ Render(FALSE, FALSE, FALSE)

\* What a saved record shows: its array is shared with a template for as long
\* as the template holds that same array (same ref).
SavedPlaceholders(k) ==
    LET r == savedLayouts[k].placeholders
    IN  IF layouts[1].ref = r.ref THEN layouts[1].items
        ELSE IF layouts[2].ref = r.ref THEN layouts[2].items
        ELSE r.items

\* Click on the k-th saved layout: JSON.parse(JSON.stringify(...)) builds new
\* arrays and objects with the same numbers, strings and nulls.
loadLayout(k) ==
    /\ ~crashed
    /\ k \in 1..Len(savedLayouts)
    /\ updateCurrentPlaceholders(SavedPlaceholders(k), TRUE, historyIndex)
    /\ lastOp' = Op("loadLayout", savedLayouts[k].name)
    /\ UNCHANGED <<activeCanvasIdx, exportSelection, frames, savedLayouts,
                   selectedIds, canvasDimensions, guides, clipboard, interaction,
                   pendingDecodes, imageSize, embedded, initialPlaceholders,
                   now, crashed>>
    /\ Render(FALSE, FALSE, FALSE)

\* ------------------------------------------------------- frames and decode

\* A PNG of pixel size `size` is chosen for the active template.
handleFrameChange(size) ==
    /\ ~crashed
    /\ Len(imageSize) < MaxUrl
    /\ LET url == Len(imageSize) + 1
       IN  /\ imageSize' = Append(imageSize, size)
           /\ pendingDecodes' = Append(pendingDecodes, 1)
           /\ frames' = [frames EXCEPT ![activeCanvasIdx + 1] = url]
    /\ lastOp' = Op("handleFrameChange", "")
    /\ UNCHANGED <<layouts, activeCanvasIdx, exportSelection, savedLayouts,
                   selectedIds, canvasDimensions, guides, clipboard, history,
                   historyIndex, interaction, embedded, initialPlaceholders,
                   now, nextRef, crashed>>
    /\ Render(FALSE, FALSE, FALSE)

\* img.onload of one Image created by the load-frame effect for `src`.
imgOnload(src) ==
    /\ ~crashed
    /\ src \in 1..Len(pendingDecodes)
    /\ pendingDecodes[src] > 0
    /\ imageSize[src].width > 0
    /\ pendingDecodes' = [pendingDecodes EXCEPT ![src] = @ - 1]
    /\ canvasDimensions' = imageSize[src]
    /\ lastOp' = Op("imgOnload", "")
    /\ UNCHANGED <<layouts, activeCanvasIdx, exportSelection, frames, savedLayouts,
                   selectedIds, guides, clipboard, history, historyIndex,
                   interaction, imageSize, embedded, initialPlaceholders,
                   now, nextRef, crashed>>
    /\ Render(FALSE, FALSE, TRUE)

\* The error event of an Image created by the load-frame effect for `src`, a
\* file that is no image: the effect sets no onerror handler, nothing runs.
imgOnerror(src) ==
    /\ ~crashed
    /\ src \in 1..Len(pendingDecodes)
    /\ pendingDecodes[src] > 0
    /\ imageSize[src].width = 0
    /\ pendingDecodes' = [pendingDecodes EXCEPT ![src] = @ - 1]
    /\ lastOp' = Op("imgOnerror", "")
    /\ UNCHANGED <<layouts, activeCanvasIdx, exportSelection, frames, savedLayouts,
                   selectedIds, canvasDimensions, guides, clipboard, history,
                   historyIndex, interaction, imageSize, embedded,
                   initialPlaceholders, now, nextRef, crashed>>
    /\ Render(FALSE, FALSE, FALSE)

\* ------------------------------------------------------------------ export

\* The state a handler without state updates leaves alone.
DesignUnchanged ==
    UNCHANGED <<layouts, activeCanvasIdx, frames, savedLayouts, selectedIds,
                canvasDimensions, guides, clipboard, history, historyIndex,
                interaction, pendingDecodes, imageSize, embedded,
                initialPlaceholders, now, nextRef, crashed>>

\* The "Use Template A / B" checkboxes; which is 1 or 2.
toggleExport(which) ==
    /\ ~crashed
    /\ exportSelection' = [exportSelection EXCEPT ![which] = ~@]
    /\ lastOp' = Op("toggleExport", IF which = 1 THEN "A" ELSE "B")
    /\ DesignUnchanged
    /\ Render(FALSE, FALSE, FALSE)

\* The confirm button is disabled while no template is flagged or a flagged
\* template has no placeholder.
ConfirmEnabled ==
    /\ exportSelection[1] \/ exportSelection[2]
    /\ exportSelection[1] => Len(layouts[1].items) # 0
    /\ exportSelection[2] => Len(layouts[2].items) # 0

\* img.decode() resolves for a source that names a decodable image; it rejects
\* for null (img.src = null) and for a file that is no image.
Decodable(src) == src # NullSrc /\ imageSize[src].width > 0

\* Template B's ids in a merged export.
ID_OFFSET == 10000

\* The merge with Template B drawn at pixel offset 0 as well.
MergePlaceholders_noOffset(itemsA, itemsB, imgA, imgB) ==
    LET width == imgA.width + imgB.width
        height == Max(imgA.height, imgB.height)
        mapA(p) == [p EXCEPT !.x = Div(p.x * imgA.width, width),
                             !.y = Div(p.y * imgA.height, height),
                             !.width = Div(p.width * imgA.width, width),
                             !.height = Div(p.height * imgA.height, height)]
        mapB(p) == [p EXCEPT !.id = p.id + ID_OFFSET,
                             !.x = Div(p.x * imgB.width, width),
                             !.y = Div(p.y * imgB.height, height),
                             !.width = Div(p.width * imgB.width, width),
                             !.height = Div(p.height * imgB.height, height)]
    IN  MapSeq(itemsA, mapA) \o MapSeq(itemsB, mapB)

\* finalPlaceholders of the merge: A at pixel offset 0, B at offset imgA.width,
\* both top aligned, on a canvas of width x height pixels.
MergePlaceholders(itemsA, itemsB, imgA, imgB) ==
    LET width == imgA.width + imgB.width
        height == Max(imgA.height, imgB.height)
        mapA(p) == [p EXCEPT !.x = Div(p.x * imgA.width, width),
                             !.y = Div(p.y * imgA.height, height),
                             !.width = Div(p.width * imgA.width, width),
                             !.height = Div(p.height * imgA.height, height)]
        mapB(p) == [p EXCEPT !.id = p.id + ID_OFFSET,
                             !.x = Div(imgA.width * ONE + p.x * imgB.width, width),
                             !.y = Div(p.y * imgB.height, height),
                             !.width = Div(p.width * imgB.width, width),
                             !.height = Div(p.height * imgB.height, height)]
    IN  MapSeq(itemsA, mapA) \o MapSeq(itemsB, mapB)

\* canvas.toDataURL of the merged canvas, as a frame source.
MergedSrc == 0 - 1

\* handleConfirm without the check that both templates have a frame.
handleConfirm_noFrameCheck ==
    /\ ~crashed
    /\ lastOp' = Op("handleConfirm", "")
    /\ LET useA == exportSelection[1]
           useB == exportSelection[2]
           base == [NoConfirm EXCEPT !.useA = useA, !.useB = useB,
                                     !.layouts = Pair(layouts), !.frames = frames]
       IN  confirm' =
             IF ~useA /\ ~useB THEN [base EXCEPT !.phase = "rejected"]
             ELSE IF useA /\ ~useB
             THEN [base EXCEPT !.phase = "done", !.calls = 1,
                               !.args = [placeholders |-> layouts[1].items,
                                         ratio |-> <<canvasDimensions.width,
                                                     canvasDimensions.height>>,
                                         frame |-> frames[1]]]
             ELSE [base EXCEPT !.phase = "awaiting"]
    /\ UNCHANGED exportSelection
    /\ DesignUnchanged
    /\ Render(FALSE, FALSE, FALSE)

\* handleConfirm up to its first await (or its return).  The closure keeps the
\* layouts and frames of the render the click happened in.
handleConfirm ==
    /\ ~crashed
    /\ lastOp' = Op("handleConfirm", "")
    /\ LET useA == exportSelection[1]
           useB == exportSelection[2]
           base == [NoConfirm EXCEPT !.useA = useA, !.useB = useB,
                                     !.layouts = Pair(layouts), !.frames = frames]
       IN  confirm' =
             IF ~useA /\ ~useB THEN [base EXCEPT !.phase = "rejected"]
             ELSE IF useA /\ ~useB
             THEN [base EXCEPT !.phase = "done", !.calls = 1,
                               !.args = [placeholders |-> layouts[1].items,
                                         ratio |-> <<canvasDimensions.width,
                                                     canvasDimensions.height>>,
                                         frame |-> frames[1]]]
             ELSE IF ~useA /\ useB THEN [base EXCEPT !.phase = "awaiting"]
             ELSE IF frames[1] = NullSrc \/ frames[2] = NullSrc
             THEN [base EXCEPT !.phase = "rejected"]
             ELSE [base EXCEPT !.phase = "awaiting"]
    /\ UNCHANGED exportSelection
    /\ DesignUnchanged
    /\ Render(FALSE, FALSE, FALSE)

\* The awaited decode(s) resolved: the rest of handleConfirm.
confirmDecoded ==
    /\ ~crashed
    /\ confirm.phase = "awaiting"
    /\ confirm.useA => Decodable(confirm.frames[1])
    /\ Decodable(confirm.frames[2])
    /\ lastOp' = Op("confirmDecoded", "")
    /\ LET imgB == imageSize[confirm.frames[2]]
       IN  confirm' =
             IF ~confirm.useA
             THEN [confirm EXCEPT !.phase = "done", !.calls = @ + 1,
                                  !.args = [placeholders |-> confirm.layouts[2],
                                            ratio |-> <<imgB.width, imgB.height>>,
                                            frame |-> confirm.frames[2]]]
             ELSE LET imgA == imageSize[confirm.frames[1]]
                  IN  [confirm EXCEPT !.phase = "done", !.calls = @ + 1,
                                      !.args = [placeholders |->
                                                    MergePlaceholders(confirm.layouts[1],
                                                                      confirm.layouts[2],
                                                                      imgA, imgB),
                                                ratio |-> <<imgA.width + imgB.width,
                                                            Max(imgA.height, imgB.height)>>,
                                                frame |-> MergedSrc]]
    /\ UNCHANGED exportSelection
    /\ DesignUnchanged
    /\ Render(FALSE, FALSE, FALSE)

\* An awaited decode rejected: the async function ends with an unhandled
\* rejection and the statements after the await never run.
confirmRejected ==
    /\ ~crashed
    /\ confirm.phase = "awaiting"
    /\ ~(/\ confirm.useA => Decodable(confirm.frames[1])
         /\ Decodable(confirm.frames[2]))
    /\ lastOp' = Op("confirmRejected", "")
    /\ confirm' = [confirm EXCEPT !.phase = "failed"]
    /\ UNCHANGED exportSelection
    /\ DesignUnchanged
    /\ Render(FALSE, FALSE, FALSE)

\* ----------------------------------------------------------------- pointer

Handles == <<"tl", "tr", "br", "bl", "t", "r", "b", "l">>
HasL(h) == h \in {"tl", "bl", "l"}
HasR(h) == h \in {"tr", "br", "r"}
HasT(h) == h \in {"tl", "tr", "t"}
HasB(h) == h \in {"bl", "br", "b"}

HandlePos(p, h) ==
    CASE h = "tl" -> [x |-> p.x, y |-> p.y]
      [] h = "tr" -> [x |-> p.x + p.width, y |-> p.y]
      [] h = "br" -> [x |-> p.x + p.width, y |-> p.y + p.height]
      [] h = "bl" -> [x |-> p.x, y |-> p.y + p.height]
      [] h = "t" -> [x |-> p.x + Div(p.width, 2), y |-> p.y]
      [] h = "r" -> [x |-> p.x + p.width, y |-> p.y + Div(p.height, 2)]
      [] h = "b" -> [x |-> p.x + Div(p.width, 2), y |-> p.y + p.height]
      [] h = "l" -> [x |-> p.x, y |-> p.y + Div(p.height, 2)]

\* canvas.getBoundingClientRect(): the canvas is displayed at its pixel size.
HandleHit(p, h, x, y) ==
    LET tolX == Div(Div(HANDLE_SIZE * ONE, 2), canvasDimensions.width) * 2
        tolY == Div(Div(HANDLE_SIZE * ONE, 2), canvasDimensions.height) * 2
        pos == HandlePos(p, h)
    IN  Abs(x - pos.x) < tolX /\ Abs(y - pos.y) < tolY

BodyHit(p, x, y) == x >= p.x /\ x <= p.x + p.width /\ y >= p.y /\ y <= p.y + p.height

\* The body hit test run front to back: the first placeholder in sequence
\* order that contains the pointer wins.
handleMouseDown_firstWins(x, y, shiftKey) ==
    /\ ~crashed
    /\ lastOp' = Op("handleMouseDown", IF shiftKey THEN "shift" ELSE "")
    /\ UNCHANGED <<layouts, activeCanvasIdx, exportSelection, frames, savedLayouts,
                   canvasDimensions, guides, clipboard, history, historyIndex,
                   pendingDecodes, imageSize, embedded, initialPlaceholders,
                   now, nextRef, crashed>>
    /\ LET one == Len(selectedIds) = 1 /\ HasId(placeholders, selectedIds[1])
           p1 == ById(placeholders, selectedIds[1])
           hits == {i \in 1..Len(Handles) : one /\ HandleHit(p1, Handles[i], x, y)}
           bodies == {i \in 1..Len(placeholders) : BodyHit(placeholders[i], x, y)}
           start(mode, handle) ==
               [mode |-> mode, activeHandle |-> handle, startNormX |-> x,
                startNormY |-> y, initialPlaceholders |-> placeholders]
       IN  IF hits # {}
           THEN /\ interaction' = start("resizing",
                                        Handles[CHOOSE i \in hits : \A j \in hits : i <= j])
                /\ UNCHANGED selectedIds
                /\ Render(FALSE, FALSE, FALSE)
           ELSE IF bodies # {}
           THEN LET p == placeholders[CHOOSE i \in bodies : \A j \in bodies : i <= j]
                    notP(id) == id # p.id
                IN  /\ selectedIds' =
                          IF shiftKey
                          THEN IF isSelected(p) THEN SelectSeq(selectedIds, notP)
                               ELSE Append(selectedIds, p.id)
                          ELSE IF ~isSelected(p) THEN <<p.id>> ELSE selectedIds
                    /\ interaction' = start("moving", "null")
                    /\ Render(shiftKey \/ ~isSelected(p), FALSE, FALSE)
           ELSE /\ selectedIds' = IF ~shiftKey THEN <<>> ELSE selectedIds
                /\ UNCHANGED interaction
                /\ Render(~shiftKey, FALSE, FALSE)


handleMouseDown(x, y, shiftKey) ==
    /\ ~crashed
    /\ lastOp' = Op("handleMouseDown", IF shiftKey THEN "shift" ELSE "")
    /\ UNCHANGED <<layouts, activeCanvasIdx, exportSelection, frames, savedLayouts,
                   canvasDimensions, guides, clipboard, history, historyIndex,
                   pendingDecodes, imageSize, embedded, initialPlaceholders,
                   now, nextRef, crashed>>
    /\ LET one == Len(selectedIds) = 1 /\ HasId(placeholders, selectedIds[1])
           p1 == ById(placeholders, selectedIds[1])
           hits == {i \in 1..Len(Handles) : one /\ HandleHit(p1, Handles[i], x, y)}
           bodies == {i \in 1..Len(placeholders) : BodyHit(placeholders[i], x, y)}
           start(mode, handle) ==
               [mode |-> mode, activeHandle |-> handle, startNormX |-> x,
                startNormY |-> y, initialPlaceholders |-> placeholders]
       IN  IF hits # {}
           THEN /\ interaction' = start("resizing",
                                        Handles[CHOOSE i \in hits : \A j \in hits : i <= j])
                /\ UNCHANGED selectedIds
                /\ Render(FALSE, FALSE, FALSE)
           ELSE IF bodies # {}
           THEN LET p == placeholders[CHOOSE i \in bodies : \A j \in bodies : i >= j]
                    notP(id) == id # p.id
                IN  /\ selectedIds' =
                          IF shiftKey
                          THEN IF isSelected(p) THEN SelectSeq(selectedIds, notP)
                               ELSE Append(selectedIds, p.id)
                          ELSE IF ~isSelected(p) THEN <<p.id>> ELSE selectedIds
                    /\ interaction' = start("moving", "null")
                    /\ Render(shiftKey \/ ~isSelected(p), FALSE, FALSE)
           ELSE /\ selectedIds' = IF ~shiftKey THEN <<>> ELSE selectedIds
                /\ UNCHANGED interaction
                /\ Render(~shiftKey, FALSE, FALSE)

\* One snap test point: its current position, and the delta a hit on `line`
\* yields, mul * (line - base).
SnapTest(at, base, mul) == [at |-> at, base |-> base, mul |-> mul]

\* The snap search with a running minimum that a tie replaces (<=).
Snap_lastWins(lines, tests, delta, thresh) ==
    LET nT == Len(tests)
        pairs == 1..(Len(lines) * nT)
        lineOf(k) == lines[Div(k - 1, nT) + 1]
        testOf(k) == tests[((k - 1) % nT) + 1]
        dist(k) == Abs(testOf(k).at - lineOf(k))
        near == {k \in pairs : dist(k) < thresh}
    IN  IF near = {}
        THEN [minDiff |-> thresh, best |-> delta, snapped |-> FALSE, line |-> 0]
        ELSE LET k == CHOOSE c \in near :
                          /\ \A o \in near : dist(c) <= dist(o)
                          /\ \A o \in near : dist(o) = dist(c) => c >= o
             IN  [minDiff |-> dist(k), best |-> testOf(k).mul * (lineOf(k) - testOf(k).base),
                  snapped |-> TRUE, line |-> lineOf(k)]

\* lines.forEach over the test points in order, each against the running
\* minimum (a strict <): the result is the first (line, test) pair, in
\* iteration order, that attains the least distance below the threshold.
Snap(lines, tests, delta, thresh) ==
    LET nT == Len(tests)
        pairs == 1..(Len(lines) * nT)
        lineOf(k) == lines[Div(k - 1, nT) + 1]
        testOf(k) == tests[((k - 1) % nT) + 1]
        dist(k) == Abs(testOf(k).at - lineOf(k))
        near == {k \in pairs : dist(k) < thresh}
    IN  IF near = {}
        THEN [minDiff |-> thresh, best |-> delta, snapped |-> FALSE, line |-> 0]
        ELSE LET k == CHOOSE c \in near :
                          /\ \A o \in near : dist(c) <= dist(o)
                          /\ \A o \in near : dist(o) = dist(c) => c <= o
             IN  [minDiff |-> dist(k), best |-> testOf(k).mul * (lineOf(k) - testOf(k).base),
                  snapped |-> TRUE, line |-> lineOf(k)]

\* others.flatMap(o => [o.x, o.x + o.width, o.x + o.width / 2]) (or the y's)
FlatLines(others, vertical) ==
    [k \in 1..(3 * Len(others)) |->
        LET p == others[Div(k - 1, 3) + 1]
            j == (k - 1) % 3
        IN  IF vertical
            THEN (IF j = 0 THEN p.x ELSE IF j = 1 THEN p.x + p.width ELSE p.x + Div(p.width, 2))
            ELSE (IF j = 0 THEN p.y ELSE IF j = 1 THEN p.y + p.height ELSE p.y + Div(p.height, 2))]

SnapLines(others, vertical) == <<0, Div(ONE, 2), ONE>> \o FlatLines(others, vertical)

Guides(sx, sy) ==
    (IF sx.snapped THEN <<[type |-> "vertical", pos |-> sx.line]>> ELSE <<>>)
    \o (IF sy.snapped THEN <<[type |-> "horizontal", pos |-> sy.line]>> ELSE <<>>)

\* The resize geometry without the correction of y under an aspect lock:
\* a locked slot pulled by a top corner keeps the y of the raw resize.
ResizeGeometry_rawTop(init, handle, dx, dy) ==
    LET rawW == IF HasR(handle) THEN Max(MIN_SLOT_SIZE, init.width + dx)
                ELSE IF HasL(handle) THEN init.width - Min(init.width - MIN_SLOT_SIZE, dx)
                ELSE init.width
        rawX == IF HasL(handle) THEN init.x + Min(init.width - MIN_SLOT_SIZE, dx)
                ELSE init.x
        rawH == IF HasB(handle) THEN Max(MIN_SLOT_SIZE, init.height + dy)
                ELSE IF HasT(handle) THEN init.height - Min(init.height - MIN_SLOT_SIZE, dy)
                ELSE init.height
        rawY == IF HasT(handle) THEN init.y + Min(init.height - MIN_SLOT_SIZE, dy)
                ELSE init.y
        raw == [x |-> rawX, y |-> rawY, width |-> rawW, height |-> rawH]
    IN  IF init.aspectRatio = "null" THEN raw
        ELSE LET r == ParseRatio(init.aspectRatio)
             IN  IF handle = "t" \/ handle = "b"
                 THEN [raw EXCEPT !.width = Div(rawH * r[1] * canvasDimensions.height,
                                                r[2] * canvasDimensions.width)]
                 ELSE [raw EXCEPT !.height = Div(rawW * canvasDimensions.width * r[2],
                                                 r[1] * canvasDimensions.height)]

\* The geometry a resize step writes for `init` (raw resize, clamp, aspect lock).
ResizeGeometry(init, handle, dx, dy) ==
    LET rawW == IF HasR(handle) THEN Max(MIN_SLOT_SIZE, init.width + dx)
                ELSE IF HasL(handle) THEN init.width - Min(init.width - MIN_SLOT_SIZE, dx)
                ELSE init.width
        rawX == IF HasL(handle) THEN init.x + Min(init.width - MIN_SLOT_SIZE, dx)
                ELSE init.x
        rawH == IF HasB(handle) THEN Max(MIN_SLOT_SIZE, init.height + dy)
                ELSE IF HasT(handle) THEN init.height - Min(init.height - MIN_SLOT_SIZE, dy)
                ELSE init.height
        rawY == IF HasT(handle) THEN init.y + Min(init.height - MIN_SLOT_SIZE, dy)
                ELSE init.y
        raw == [x |-> rawX, y |-> rawY, width |-> rawW, height |-> rawH]
    IN  IF init.aspectRatio = "null" THEN raw
        ELSE LET r == ParseRatio(init.aspectRatio)
             IN  IF handle = "t" \/ handle = "b"
                 THEN [raw EXCEPT !.width = Div(rawH * r[1] * canvasDimensions.height,
                                                r[2] * canvasDimensions.width)]
                 ELSE LET newH == Div(rawW * canvasDimensions.width * r[2],
                                      r[1] * canvasDimensions.height)
                      IN  [raw EXCEPT !.height = newH,
                                      !.y = IF HasT(handle)
                                            THEN (init.y + init.height) - newH
                                            ELSE rawY]

\* A move that adds the pointer's travel since the last event to the
\* positions on screen instead of rebuilding them from the snapshot; it
\* snaps nothing.
MoveWrite_incremental(prev, x, y) ==
    LET stepX == x - pointer[1]
        stepY == y - pointer[2]
        move(p) == IF isSelected(p) THEN [p EXCEPT !.x = p.x + stepX, !.y = p.y + stepY]
                   ELSE p
    IN  [write |-> TRUE, items |-> MapSeq(prev, move), guides |-> <<>>]

\* What one pointer-move event at (x, y) writes over the array prev handed
\* to its updater: whether setLayouts is called at all, the array it
\* returns, and the guide list passed to setGuides (the current one where
\* the handler returns before reaching setGuides).
MoveWrite(prev, x, y) ==
    LET init0 == interaction.initialPlaceholders
           dx == x - interaction.startNormX
           dy == y - interaction.startNormY
           notSel(p) == ~isSelected(p)
           others == Filter(init0, notSel)
           vLines == SnapLines(others, TRUE)
           hLines == SnapLines(others, FALSE)
           threshX == Div(SNAP_THRESHOLD_PX * ONE, canvasDimensions.width)
           threshY == Div(SNAP_THRESHOLD_PX * ONE, canvasDimensions.height)
           selectedInitials == Filter(init0, isSelected)
       IN  IF interaction.mode = "moving"
           THEN IF Len(selectedInitials) > 0
                THEN LET minX == SeqMin(MapSeq(selectedInitials, LAMBDA p : p.x))
                         maxX == SeqMax(MapSeq(selectedInitials, LAMBDA p : p.x + p.width))
                         minY == SeqMin(MapSeq(selectedInitials, LAMBDA p : p.y))
                         maxY == SeqMax(MapSeq(selectedInitials, LAMBDA p : p.y + p.height))
                         cX == Div(minX + maxX, 2)
                         cY == Div(minY + maxY, 2)
                         sx == Snap(vLines, <<SnapTest(minX + dx, minX, 1),
                                              SnapTest(maxX + dx, maxX, 1),
                                              SnapTest(cX + dx, cX, 1)>>, dx, threshX)
                         sy == Snap(hLines, <<SnapTest(minY + dy, minY, 1),
                                              SnapTest(maxY + dy, maxY, 1),
                                              SnapTest(cY + dy, cY, 1)>>, dy, threshY)
                         move(p) ==
                             IF ~isSelected(p) \/ ~HasId(init0, p.id) THEN p
                             ELSE [p EXCEPT !.x = ById(init0, p.id).x + sx.best,
                                            !.y = ById(init0, p.id).y + sy.best]
                     IN  [write |-> TRUE, items |-> MapSeq(prev, move),
                          guides |-> Guides(sx, sy)]
                ELSE [write |-> FALSE, items |-> prev, guides |-> <<>>]
           ELSE IF Len(selectedIds) = 1
           THEN IF ~HasId(init0, selectedIds[1])
                THEN [write |-> FALSE, items |-> prev, guides |-> guides]
                ELSE LET init == ById(init0, selectedIds[1])
                         handle == interaction.activeHandle
                         cX == init.x + Div(init.width, 2)
                         cY == init.y + Div(init.height, 2)
                         noSnapX == [minDiff |-> threshX, best |-> dx, snapped |-> FALSE, line |-> 0]
                         noSnapY == [minDiff |-> threshY, best |-> dy, snapped |-> FALSE, line |-> 0]
                         sx == IF HasL(handle)
                               THEN Snap(vLines, <<SnapTest(init.x + dx, init.x, 1),
                                                   SnapTest(cX + Div(dx, 2), cX, 2)>>, dx, threshX)
                               ELSE IF HasR(handle)
                               THEN Snap(vLines, <<SnapTest(init.x + init.width + dx,
                                                            init.x + init.width, 1),
                                                   SnapTest(cX + Div(dx, 2), cX, 2)>>, dx, threshX)
                               ELSE noSnapX
                         sy == IF HasT(handle)
                               THEN Snap(hLines, <<SnapTest(init.y + dy, init.y, 1),
                                                   SnapTest(cY + Div(dy, 2), cY, 2)>>, dy, threshY)
                               ELSE IF HasB(handle)
                               THEN Snap(hLines, <<SnapTest(init.y + init.height + dy,
                                                            init.y + init.height, 1),
                                                   SnapTest(cY + Div(dy, 2), cY, 2)>>, dy, threshY)
                               ELSE noSnapY
                         g == ResizeGeometry(init, handle, sx.best, sy.best)
                         resize(p) ==
                             IF p.id = init.id
                             THEN [p EXCEPT !.x = g.x, !.y = g.y,
                                            !.width = g.width, !.height = g.height]
                             ELSE p
                     IN  [write |-> TRUE, items |-> MapSeq(prev, resize),
                          guides |-> Guides(sx, sy)]
           ELSE [write |-> FALSE, items |-> prev, guides |-> <<>>]

handleMouseMove(x, y) ==
    /\ ~crashed
    /\ interaction.mode # "idle"
    /\ lastOp' = Op("handleMouseMove", "")
    /\ pointer' = <<x, y>>
    /\ LET w == MoveWrite(placeholders, x, y)
       IN  /\ IF w.write
              THEN updateCurrentPlaceholders(w.items, FALSE, historyIndex)
              ELSE UNCHANGED <<layouts, nextRef, history, historyIndex>>
           /\ guides' = w.guides
    /\ UNCHANGED <<activeCanvasIdx, exportSelection, frames, savedLayouts,
                   selectedIds, canvasDimensions, clipboard, interaction,
                   pendingDecodes, imageSize, embedded, initialPlaceholders,
                   now, crashed>>
    /\ Render(FALSE, FALSE, FALSE)

\* handleMouseUp recording history at the end of every gesture, changed or not.
handleMouseUp_alwaysRecords ==
    /\ ~crashed
    /\ lastOp' = Op("handleMouseUp", "")
    /\ IF interaction.mode # "idle"
       THEN recordHistory(layouts, historyIndex)
       ELSE UNCHANGED <<history, historyIndex>>
    /\ interaction' = IdleInteraction
    /\ guides' = <<>>
    /\ UNCHANGED <<layouts, activeCanvasIdx, exportSelection, frames, savedLayouts,
                   selectedIds, canvasDimensions, clipboard, pendingDecodes,
                   imageSize, embedded, initialPlaceholders, now, nextRef, crashed>>
    /\ Render(FALSE, FALSE, FALSE)

\* onMouseUp and onMouseLeave.  The program assigns interaction.current.mode
\* alone; the other fields of the ref are read only while the mode is not
\* 'idle' and handleMouseDown overwrites them all, so they are reset here.
\* handleMouseUp without the setGuides([]).
handleMouseUp_keepsGuides ==
    /\ ~crashed
    /\ lastOp' = Op("handleMouseUp", "")
    /\ IF interaction.mode # "idle" /\ placeholders # interaction.initialPlaceholders
       THEN recordHistory(layouts, historyIndex)
       ELSE UNCHANGED <<history, historyIndex>>
    /\ interaction' = IdleInteraction
    /\ UNCHANGED <<layouts, activeCanvasIdx, exportSelection, frames, savedLayouts,
                   selectedIds, canvasDimensions, clipboard, pendingDecodes,
                   imageSize, embedded, initialPlaceholders, now, nextRef, crashed,
                   guides>>
    /\ Render(FALSE, FALSE, FALSE)

handleMouseUp ==
    /\ ~crashed
    /\ lastOp' = Op("handleMouseUp", "")
    /\ IF interaction.mode # "idle" /\ placeholders # interaction.initialPlaceholders
       THEN recordHistory(layouts, historyIndex)
       ELSE UNCHANGED <<history, historyIndex>>
    /\ interaction' = IdleInteraction
    /\ guides' = <<>>
    /\ UNCHANGED <<layouts, activeCanvasIdx, exportSelection, frames, savedLayouts,
                   selectedIds, canvasDimensions, clipboard, pendingDecodes,
                   imageSize, embedded, initialPlaceholders, now, nextRef, crashed>>
    /\ Render(FALSE, FALSE, FALSE)

\* ------------------------------------------------------------------- hosts

\* Placeholder lists of the host's layout options (FrameEditor's
\* selectedLayout.placeholders, LayoutEditorModal's layout.placeholders).
HostSeeds ==
    {<<>>,
     <<Slot(1, 8400, 7200, 7200, 9600)>>,
     <<Slot(1, 2400, 2400, 7200, 7200), Slot(2, 12000, 12000, 7200, 7200)>>}

\* useEffect [embedded, initialPlaceholders]: runs again whenever the host
\* passes another array; writes both templates, records no history entry.
seedLayouts(seed) ==
    /\ nextRef + 2 <= MaxRef
    /\ layouts' = <<[ref |-> nextRef, items |-> seed],
                    [ref |-> nextRef + 1, items |-> <<>>]>>
    /\ nextRef' = nextRef + 2

\* The host renders the designer with another initialPlaceholders array: a
\* different layout option, or the list it stored from onPlaceholdersChange.
hostSetsInitialPlaceholders(seed) ==
    /\ ~crashed
    /\ embedded
    /\ initialPlaceholders' = seed
    /\ seedLayouts(seed)
    /\ lastOp' = Op("hostSetsInitialPlaceholders", "")
    /\ UNCHANGED <<activeCanvasIdx, exportSelection, frames, savedLayouts,
                   selectedIds, canvasDimensions, guides, clipboard, history,
                   historyIndex, interaction, pendingDecodes, imageSize,
                   embedded, now, crashed>>
    /\ Render(FALSE, FALSE, FALSE)

\* -------------------------------------------------------------- hot folder

\* The entries of the selected directory, in the order values() yields them.
FolderEntries == <<"a.jpg", "notes.txt", "b.PNG">>

\* entry.name.match(/\.(jpg|jpeg|png|gif)$/i)
IsImageName(name) == name \in {"a.jpg", "b.PNG"}

\* A pollFolder call that is not running.
NoPoll == [pc |-> "none", at |-> 0, newPhotos |-> {}]

\* The hook before the first startPolling.  delivered counts, per file name,
\* the onNewPhotos calls of the current session that carried it.
HotFolderUnused ==
    [session |-> 0, interval |-> FALSE, knownFiles |-> {},
     polls |-> [p \in 1..MaxPolls |-> NoPoll],
     delivered |-> [i \in 1..Len(FolderEntries) |-> 0]]

\* pollFolder is called: a new Map, and the iteration of directoryHandle.values()
\* begins.
pollStarted(polls) ==
    LET p == CHOOSE q \in 1..MaxPolls : polls[q].pc = "none"
    IN  [polls EXCEPT ![p] = [pc |-> "values", at |-> 1, newPhotos |-> {}]]

\* startPolling as implemented, with knownFiles cleared and a still running
\* poll of the session before left running.
startPolling ==
    /\ hotFolder.session < MaxSessions
    /\ \E q \in 1..MaxPolls : hotFolder.polls[q].pc = "none"
    /\ hotFolder' = [hotFolder EXCEPT
                       !.session = @ + 1,
                       !.interval = TRUE,
                       !.knownFiles = {},
                       !.polls = pollStarted(@),
                       !.delivered = [i \in 1..Len(FolderEntries) |-> 0]]
    /\ UNCHANGED designer

\* The 2-second interval fires.
intervalFires ==
    /\ hotFolder.interval
    /\ \E q \in 1..MaxPolls : hotFolder.polls[q].pc = "none"
    /\ hotFolder' = [hotFolder EXCEPT !.polls = pollStarted(@)]
    /\ UNCHANGED designer

\* The iterator of poll p yields its next entry, or ends: a new image name
\* makes the poll await getFile(); at the end a non-empty Map is handed to
\* onNewPhotos.
pollNextEntry(p) ==
    LET poll == hotFolder.polls[p]
        name == FolderEntries[poll.at]
    IN  /\ poll.pc = "values"
        /\ hotFolder' =
             IF poll.at > Len(FolderEntries)
             THEN [hotFolder EXCEPT
                     !.polls[p] = NoPoll,
                     !.delivered = [i \in 1..Len(FolderEntries) |->
                                       IF FolderEntries[i] \in poll.newPhotos
                                       THEN @[i] + 1 ELSE @[i]]]
             ELSE IF name \notin hotFolder.knownFiles /\ IsImageName(name)
             THEN [hotFolder EXCEPT !.polls[p].pc = "getFile"]
             ELSE [hotFolder EXCEPT !.polls[p].at = @ + 1]
        /\ UNCHANGED designer

\* getFile() of poll p resolves: the name goes into the poll's Map and into
\* knownFiles.
pollGotFile(p) ==
    LET poll == hotFolder.polls[p]
        name == FolderEntries[poll.at]
    IN  /\ poll.pc = "getFile"
        /\ hotFolder' = [hotFolder EXCEPT
                           !.polls[p] = [pc |-> "values", at |-> poll.at + 1,
                                         newPhotos |-> poll.newPhotos \cup {name}],
                           !.knownFiles = @ \cup {name}]
        /\ UNCHANGED designer

stopPolling ==
    /\ hotFolder.interval
    /\ hotFolder' = [hotFolder EXCEPT !.interval = FALSE]
    /\ UNCHANGED designer

\* ---------------------------------------------------------- specifications

\* The state after the first mount: frameSrc is the host's frame (or null),
\* the load-frame effect has started its decode, and in embedded mode the
\* seed effect and the emit effect have run once; savedLayouts is what the
\* mount effect parsed from localStorage.
MountedWith(isEmbedded, seed, frameSizes, stored) ==
    /\ layouts = IF isEmbedded
                 THEN <<[ref |-> 0 - 1, items |-> seed], [ref |-> 0 - 2, items |-> <<>>]>>
                 ELSE EmptyLayouts(0 - 1)
    /\ activeCanvasIdx = 0
    /\ exportSelection = <<TRUE, FALSE>>
    /\ frames = IF frameSizes = <<>> THEN <<NullSrc, NullSrc>> ELSE <<1, 1>>
    /\ savedLayouts = stored
    /\ selectedIds = <<>>
    /\ canvasDimensions = DefaultCanvas
    /\ guides = <<>>
    /\ clipboard = <<>>
    /\ history = <<EmptyLayouts(0 - 3)>>
    /\ historyIndex = 0
    /\ interaction = IdleInteraction
    /\ pendingDecodes = [i \in 1..Len(frameSizes) |-> 1]
    /\ imageSize = frameSizes
    /\ embedded = isEmbedded
    /\ initialPlaceholders = seed
    /\ captured = [remove |-> 0, paste |-> 0, nudge |-> 0, auto |-> 0]
    /\ emitted = IF isEmbedded /\ Len(seed) > 0
                 THEN [flag |-> TRUE, value |-> seed]
                 ELSE [flag |-> FALSE, value |-> <<>>]
    /\ now = 1
    /\ nextRef = 0
    /\ crashed = FALSE
    /\ lastOp = [name |-> "mount", arg |-> "", nsel |-> 0]
    /\ rt = [phase |-> "ops", n |-> 0, k |-> 0, final |-> <<<<>>, <<>>>>]
    /\ confirm = NoConfirm
    /\ pointer = <<0, 0>>
    /\ hotFolder = HotFolderUnused

\* A first mount with nothing in localStorage['saved_layouts'].
Mounted(isEmbedded, seed, frameSizes) == MountedWith(isEmbedded, seed, frameSizes, <<>>)

\* The side panel and the template tabs lie outside the canvas: the pointer
\* reaches them only through onMouseLeave, which ends any gesture.
PointerOffCanvas == interaction.mode = "idle"

Init == Mounted(FALSE, <<>>, <<>>)

\* The designer driven from the keyboard and the side panel, one operation
\* every few milliseconds.
Next ==
    \/ addPlaceholder(4)
    \/ removeSelected
    \/ copySelected
    \/ paste(4)
    \/ nudgeSelected(1, 0)
    \/ \E a \in {"left", "middle"} : alignSelected(a)
    \/ undo
    \/ redo

Spec == Init /\ [][Next]_vars

\* Round trips only: n recording operations, then n undos, then n redos.
NextRoundTrip ==
    \/ rt.phase = "ops" /\ addPlaceholder(4)
    \/ rt.phase = "ops" /\ removeSelected
    \/ rt.phase = "ops" /\ copySelected
    \/ rt.phase = "ops" /\ paste(4)
    \/ rt.phase = "ops" /\ nudgeSelected(1, 0)
    \/ rt.phase = "ops" /\ alignSelected("left")
    \/ (rt.phase = "ops" /\ rt.n > 0) /\ undo
    \/ (rt.phase = "undo" /\ rt.k < rt.n) /\ undo
    \/ (rt.phase = "undo" /\ rt.k = rt.n) /\ redo
    \/ (rt.phase = "redo" /\ rt.k < rt.n) /\ redo

SpecRoundTrip == Init /\ [][NextRoundTrip]_vars

\* Selection by pointer and keyboard over freeform slots, and the template tabs.
NextSelect ==
    \/ PointerOffCanvas /\ addPlaceholder(4)
    \/ \E x \in {0, 12000}, shiftKey \in BOOLEAN : handleMouseDown(x, 12000, shiftKey)
    \/ handleMouseUp
    \/ selectAll
    \/ PointerOffCanvas /\ \E idx \in {0, 1} : switchCanvas(idx)

SpecSelect == Init /\ [][NextSelect]_vars

\* Resize and move gestures on the one freeform slot of a template, free or
\* locked.
NextResize ==
    \/ PointerOffCanvas /\ placeholders = <<>> /\ addPlaceholder(4)
    \/ PointerOffCanvas /\ \E key \in {"1:1 (Square)", "9:16 (Story)"} : updateAspectRatio(key)
    \/ \E x \in {8400, 12000, 15600}, y \in {7200, 12000, 16800} : handleMouseDown(x, y, FALSE)
    \/ \E c \in {0, 24000} : handleMouseMove(c, c)
    \/ handleMouseUp

SpecResize == Init /\ [][NextResize]_vars

\* Frames: the host's frame or none at mount, uploads, template switches and
\* the onload events of the images, in any order.
InitDecode == \E fs \in {<<>>} \cup {<<size>> : size \in ImageSizes} : Mounted(FALSE, <<>>, fs)

NextDecode ==
    \/ \E size \in ImageSizes : handleFrameChange(size)
    \/ \E idx \in {0, 1} : switchCanvas(idx)
    \/ \E src \in 1..MaxUrl : imgOnload(src)

SpecDecode == InitDecode /\ [][NextDecode]_vars

\* The designer embedded in a host (FrameEditor, LayoutEditorModal).
\* The host re-renders and the operator uses the keyboard between gestures, not
\* while a pointer button is held.
InitEmbedded == \E seed \in HostSeeds : Mounted(TRUE, seed, <<>>)

NextEmbedded ==
    \/ PointerOffCanvas /\ \E seed \in HostSeeds \cup {emitted.value} : hostSetsInitialPlaceholders(seed)
    \/ PointerOffCanvas /\ addPlaceholder(4)
    \/ PointerOffCanvas /\ removeSelected
    \/ PointerOffCanvas /\ selectAll
    \/ handleMouseDown(12000, 12000, FALSE)
    \/ \E x \in {12000, 15600} : handleMouseMove(x, 12000)
    \/ handleMouseUp
    \/ PointerOffCanvas /\ undo
    \/ PointerOffCanvas /\ redo

SpecEmbedded == InitEmbedded /\ [][NextEmbedded]_vars

\* Two layouts stored in localStorage by an earlier session.
StoredLayouts ==
    <<[id |-> 0 - 2, name |-> "right half",
       placeholders |-> [ref |-> 0 - 11, items |-> <<Slot(0 - 2, 12000, 0, 12000, 24000)>>]],
      [id |-> 0 - 1, name |-> "full",
       placeholders |-> [ref |-> 0 - 12, items |-> <<Slot(0 - 1, 0, 0, 24000, 24000)>>]]>>

ExportSizes == {[width |-> 100, height |-> 200], [width |-> 50, height |-> 200]}

\* The operator fills a template once, gives a template another frame once,
\* and designs before the first click on the confirm button; a confirm
\* settles before the next click.
Designing == confirm.phase = "none"
ActiveEmpty == Len(placeholders) = 0
ActiveFrameInitial == activeFrameSrc \in {NullSrc, 1}
ConfirmClickable == ConfirmEnabled /\ confirm.phase # "awaiting"

\* Export with and without frames: the checkboxes, the confirm button, frame
\* uploads and their decodes.
InitExport ==
    \E fs \in {<<>>, <<[width |-> 100, height |-> 200]>>} :
        MountedWith(FALSE, <<>>, fs, StoredLayouts)

NextExport ==
    \/ (Designing /\ ActiveEmpty) /\ loadLayout(1)
    \/ \E idx \in {0, 1} : switchCanvas(idx)
    \/ \E which \in {1, 2} : toggleExport(which)
    \/ (Designing /\ ActiveFrameInitial) /\ handleFrameChange([width |-> 50, height |-> 200])
    \/ \E src \in 1..MaxUrl : imgOnload(src)
    \/ ConfirmClickable /\ handleConfirm
    \/ confirmDecoded
    \/ confirmRejected

SpecExport == InitExport /\ [][NextExport]_vars

\* Merged exports: both templates framed and filled from the stored layouts or
\* with freeform slots added seconds apart.
InitMerge == \E size \in ExportSizes : MountedWith(FALSE, <<>>, <<size>>, StoredLayouts)

NextMerge ==
    \/ (Designing /\ ActiveEmpty) /\ \E k \in 1..2 : loadLayout(k)
    \/ (Designing /\ ActiveEmpty) /\ \E dt \in {4, ID_OFFSET} : addPlaceholder(dt)
    \/ Designing /\ \E idx \in {0, 1} : switchCanvas(idx)
    \/ (Designing /\ ~exportSelection[2]) /\ toggleExport(2)
    \/ (Designing /\ ActiveFrameInitial) /\ \E size \in ExportSizes : handleFrameChange(size)
    \/ ConfirmClickable /\ handleConfirm
    \/ confirmDecoded

SpecMerge == InitMerge /\ [][NextMerge]_vars

\* A stored layout with a wide slot and a small one: at one pointer position
\* the wide slot's left edge is as far from the canvas edge as its right edge
\* is from the canvas center.
SnapLayouts ==
    <<[id |-> 0 - 3, name |-> "wide and small",
       placeholders |-> [ref |-> 0 - 13,
                         items |-> <<Slot(0 - 2, 2400, 2400, 11760, 4800),
                                     Slot(0 - 1, 16800, 12000, 4800, 4800)>>]]>>

\* The layout as loaded, before any gesture has changed it.
Untouched == placeholders = SnapLayouts[1].placeholders.items

\* Move gestures on the loaded layout: a press on either slot (shift adds to
\* the selection), pointer positions with and without a line within reach.
InitSnap == MountedWith(FALSE, <<>>, <<>>, SnapLayouts)

NextSnap ==
    \/ (PointerOffCanvas /\ ActiveEmpty) /\ loadLayout(1)
    \/ Untouched /\ \E at \in {<<6000, 4800>>, <<19200, 14400>>}, shiftKey \in BOOLEAN :
           handleMouseDown(at[1], at[2], shiftKey)
    \/ \E x \in {3720, 3800, 7000, 10900}, y \in {2500, 5800, 9500} : handleMouseMove(x, y)
    \/ handleMouseUp

SpecSnap == InitSnap /\ [][NextSnap]_vars

\* A stored layout of four slots of different sizes, unevenly spaced on both
\* axes and stored in another order than their positions.
DistributeLayouts ==
    <<[id |-> 0 - 5, name |-> "scattered",
       placeholders |-> [ref |-> 0 - 14,
                         items |-> <<Slot(0 - 4, 19200, 15000, 3600, 5000),
                                     Slot(0 - 3, 6000, 9000, 4500, 3000),
                                     Slot(0 - 2, 1200, 1200, 3000, 4000),
                                     Slot(0 - 1, 13000, 4000, 2400, 6000)>>]]>>

\* Distribute on the loaded layout: Ctrl+A selects all four slots, a
\* shift-click on the last slot takes it out of (or into) the selection, a
\* click on a middle slot selects it alone to be nudged with the arrow keys,
\* and the Distribute buttons are clicked.
InitDistribute == MountedWith(FALSE, <<>>, <<>>, DistributeLayouts)

NextDistribute ==
    \/ (PointerOffCanvas /\ ActiveEmpty) /\ loadLayout(1)
    \/ PointerOffCanvas /\ selectAll
    \/ handleMouseDown(21000, 17500, TRUE)
    \/ handleMouseDown(8250, 10500, FALSE)
    \/ ~PointerOffCanvas /\ handleMouseUp
    \/ (PointerOffCanvas /\ Len(selectedIds) = 1) /\ \E d \in {<<1, 0>>, <<0, 10>>} : nudgeSelected(d[1], d[2])
    \/ PointerOffCanvas /\ \E axis \in {"horizontal", "vertical"} : distributeSelected(axis)

SpecDistribute == InitDistribute /\ [][NextDistribute]_vars

\* Presets on empty and on filled templates: the preset buttons, the Add Slot
\* button, and the operator going on from Template A to Template B.
NextPreset ==
    \/ \E type \in PresetKinds : addPreset(type, 4)
    \/ addPlaceholder(4)
    \/ activeCanvasIdx = 0 /\ switchCanvas(1)

SpecPreset == Init /\ [][NextPreset]_vars

\* The Save button is enabled (a name is typed, the template has slots), and
\* the operator saves one layout in this session.
CanSave == Len(placeholders) > 0 /\ Len(savedLayouts) = Len(StoredLayouts)

\* Saving, loading and editing: a stored layout or the one saved in this
\* session is loaded into an empty template, all slots are selected and
\* nudged, edits are undone and redone, and the operator goes on from
\* Template A to Template B.
InitSaved == MountedWith(FALSE, <<>>, <<>>, StoredLayouts)

NextSaved ==
    \/ ActiveEmpty /\ \E k \in 1..Len(savedLayouts) : loadLayout(k)
    \/ CanSave /\ saveLayout("mine", 4)
    \/ selectedIds = <<>> /\ selectAll
    \/ nudgeSelected(0 - 5, 0)
    \/ undo
    \/ redo
    \/ activeCanvasIdx = 0 /\ switchCanvas(1)

SpecSaved == InitSaved /\ [][NextSaved]_vars

\* Frames that decode and frames that do not: a PNG file that is no image is
\* uploaded, or the host's frameSrc is one.
InitDecodeFail ==
    \E fs \in {<<>>} \cup {<<size>> : size \in ImageSizes \cup {Corrupt}} :
        Mounted(FALSE, <<>>, fs)

NextDecodeFail ==
    \/ \E size \in ImageSizes \cup {Corrupt} : handleFrameChange(size)
    \/ \E idx \in {0, 1} : switchCanvas(idx)
    \/ \E src \in 1..MaxUrl : imgOnload(src)
    \/ \E src \in 1..MaxUrl : imgOnerror(src)

SpecDecodeFail == InitDecodeFail /\ [][NextDecodeFail]_vars

\* A stored layout of two overlapping slots, the second one on top.
GestureLayouts ==
    <<[id |-> 0 - 3, name |-> "overlapping",
       placeholders |-> [ref |-> 0 - 15,
                         items |-> <<Slot(0 - 2, 2400, 2400, 9600, 9600),
                                     Slot(0 - 1, 7200, 7200, 9600, 9600)>>]]>>

\* Where the pointer is pressed: on the first slot alone, where the two
\* overlap, on the first slot's bottom-right handle, and on empty canvas.
PressPoints == {<<4800, 4800>>, <<9600, 9600>>, <<12000, 12000>>, <<21600, 21600>>}

\* Where the pointer is moved to; the first is also a press point.
MovePoints == {<<4800, 4800>>, <<6000, 6000>>, <<12000, 12000>>, <<13200, 10800>>}

\* The layout as loaded: no gesture has changed it, or the pointer is back
\* where the gesture started.
GestureFresh == placeholders = GestureLayouts[1].placeholders.items

\* Pointer gestures on the loaded layout: presses of any button (with or
\* without shift, also while another button is held), moves, releases and
\* leaves.
InitGesture == MountedWith(FALSE, <<>>, <<>>, GestureLayouts)

NextGesture ==
    \/ (PointerOffCanvas /\ ActiveEmpty) /\ loadLayout(1)
    \/ GestureFresh /\ \E at \in PressPoints, shiftKey \in BOOLEAN :
           handleMouseDown(at[1], at[2], shiftKey)
    \/ \E at \in MovePoints : handleMouseMove(at[1], at[2])
    \/ handleMouseUp

SpecGesture == InitGesture /\ [][NextGesture]_vars

\* Aspect-ratio locks and frames: a freeform slot is locked to a ratio, and
\* the template gets another frame image.
NextAspect ==
    \/ ActiveEmpty /\ addPlaceholder(4)
    \/ \E key \in {"1:1 (Square)", "3:2 (Landscape)", "Free"} : updateAspectRatio(key)
    \/ \E size \in ImageSizes : handleFrameChange(size)
    \/ \E src \in 1..MaxUrl : imgOnload(src)

SpecAspect == Init /\ [][NextAspect]_vars

\* Id assignment on a millisecond clock: presets, freeform slots and pastes,
\* one or four milliseconds after the operation before.
NextIds ==
    \/ \E type \in {"2x2", "strip3"} : addPreset(type, 4)
    \/ \E dt \in {1, 4} : addPlaceholder(dt)
    \/ selectAll
    \/ copySelected
    \/ \E dt \in {1, 4} : paste(dt)

SpecIds == Init /\ [][NextIds]_vars

\* A stored layout with a free slot and a slot locked to 1:1 (200 by 200
\* pixels on the default canvas), apart from each other.
PinLayouts ==
    <<[id |-> 0 - 3, name |-> "free and locked",
       placeholders |-> [ref |-> 0 - 17,
                         items |-> <<Slot(0 - 2, 2400, 2400, 7200, 7200),
                                     [Slot(0 - 1, 12000, 12000, 6000, 8000)
                                        EXCEPT !.aspectRatio = "1:1 (Square)"]>>]]>>

\* The centers of the two slots and their eight handle positions each.
PinPressPoints ==
    {<<6000, 6000>>, <<15000, 16000>>}
    \cup {<<x, y>> : x \in {2400, 6000, 9600}, y \in {2400, 6000, 9600}}
    \cup {<<x, y>> : x \in {12000, 15000, 18000}, y \in {12000, 16000, 20000}}

\* The layout as loaded.
PinFresh == placeholders = PinLayouts[1].placeholders.items

\* Resize gestures on the loaded layout: a slot is selected by a press on
\* its center, then pulled by a handle to a canvas corner or to a point in
\* between.
InitPinned == MountedWith(FALSE, <<>>, <<>>, PinLayouts)

NextPinned ==
    \/ (PointerOffCanvas /\ ActiveEmpty) /\ loadLayout(1)
    \/ (PointerOffCanvas /\ PinFresh) /\ \E at \in PinPressPoints : handleMouseDown(at[1], at[2], FALSE)
    \/ \E at \in {<<0, 0>>, <<13200, 10800>>, <<24000, 24000>>} : handleMouseMove(at[1], at[2])
    \/ handleMouseUp

SpecPinned == InitPinned /\ [][NextPinned]_vars

\* The number of alignment buttons clicked in one session.
MaxAligns == 2

\* The alignment buttons on the loaded layout of four slots, with one slot,
\* three slots or all four selected.
NextAlign ==
    \/ (PointerOffCanvas /\ ActiveEmpty) /\ loadLayout(1)
    \/ PointerOffCanvas /\ selectAll
    \/ handleMouseDown(21000, 17500, TRUE)
    \/ handleMouseDown(8250, 10500, FALSE)
    \/ ~PointerOffCanvas /\ handleMouseUp
    \/ (PointerOffCanvas /\ nextRef <= MaxAligns) /\ \E alignment \in Alignments : alignSelected(alignment)

SpecAlign == InitDistribute /\ [][NextAlign]_vars

\* The embedded designer with its two template tabs, in a host that stores
\* each emitted list and passes it back as initialPlaceholders.
NextTabs ==
    \/ emitted.flag /\ hostSetsInitialPlaceholders(emitted.value)
    \/ addPlaceholder(4)
    \/ \E idx \in {0, 1} : switchCanvas(idx)
    \/ undo
    \/ redo

SpecTabs == InitEmbedded /\ [][NextTabs]_vars

\* Keys pressed while a pointer button is held on a slot of the loaded
\* layout: an arrow key, Delete and Ctrl+Z between the pointer-down and the
\* pointer-up, with or without a pointer-move.
NextHeld ==
    \/ (PointerOffCanvas /\ ActiveEmpty) /\ loadLayout(1)
    \/ (PointerOffCanvas /\ GestureFresh) /\ handleMouseDown(4800, 4800, FALSE)
    \/ handleMouseMove(6000, 6000)
    \/ ~PointerOffCanvas /\ nudgeSelected(1, 0)
    \/ ~PointerOffCanvas /\ removeSelected
    \/ ~PointerOffCanvas /\ undo
    \/ handleMouseUp

SpecHeld == InitGesture /\ [][NextHeld]_vars

\* The hot folder in use: sessions are started and stopped, the interval
\* fires, and the reads of the polls resolve in any order.
NextHotFolder ==
    \/ startPolling
    \/ stopPolling
    \/ intervalFires
    \/ \E p \in 1..MaxPolls : pollNextEntry(p)
    \/ \E p \in 1..MaxPolls : pollGotFile(p)

SpecHotFolder == Init /\ [][NextHotFolder]_vars

\* A selection that outlives its slots: a preset is applied and all of its
\* slots selected, a stored layout is loaded over it, and the operator goes
\* on with the Distribute buttons, undo and redo.
NextStale ==
    \/ ActiveEmpty /\ addPreset("strip3", 4)
    \/ selectAll
    \/ \E k \in 1..Len(savedLayouts) : loadLayout(k)
    \/ \E axis \in {"horizontal", "vertical"} : distributeSelected(axis)
    \/ undo
    \/ redo

SpecStale == InitSaved /\ [][NextStale]_vars

\* ------------------------------------------------------------------ claims

\* C1: after any sequence of designer operations the history cursor is a
\* valid index of the history, 0 <= cursor <= length(history) - 1.
C1_CursorValid == 0 <= historyIndex /\ historyIndex <= Len(history) - 1

\* C2: after n recording operations of a fresh session, n undos give back the
\* empty template pair, and n redos after that give back the pair that
\* existed after the n-th operation.
C2_RoundTrip ==
    /\ rt.phase \in {"undo", "redo"} => ~crashed
    /\ rt.phase = "undo" /\ rt.k = rt.n => Pair(layouts) = <<<<>>, <<>>>>
    /\ rt.phase = "redo" /\ rt.k = rt.n => Pair(layouts) = rt.final

\* C3: a record at cursor c keeps entries 0..c, drops every entry past c,
\* appends the new snapshot and leaves the cursor at c + 1, the last entry
\* (so that a redo has nothing to restore).
C3_RecordTruncates ==
    [][lastOp'.name \in RecordingOps =>
          /\ history' = Append(SubSeq(history, 1, historyIndex + 1), layouts')
          /\ historyIndex' = historyIndex + 1
          /\ historyIndex' = Len(history') - 1]_vars

\* C4: the same align applied a second time in a row to the same selection
\* leaves the geometry as the first application left it and appends no
\* history entry.
C4_AlignTwice ==
    [][(lastOp.name = "alignSelected" /\ lastOp' = lastOp /\ selectedIds' = selectedIds) =>
          /\ Pair(layouts') = Pair(layouts)
          /\ history' = history
          /\ historyIndex' = historyIndex]_vars

\* C5: the geometry written by a resize step has width >= 0.02 and
\* height >= 0.02, for free and locked placeholders, every handle and every
\* pointer delta.
C5_MinSize ==
    (/\ lastOp.name = "handleMouseMove"
     /\ interaction.mode = "resizing"
     /\ Len(selectedIds) = 1
     /\ HasId(placeholders, selectedIds[1])) =>
        /\ ById(placeholders, selectedIds[1]).width >= MIN_SLOT_SIZE
        /\ ById(placeholders, selectedIds[1]).height >= MIN_SLOT_SIZE

\* C6: switching the active template leaves an empty selection, whatever
\* was selected before the switch.
C6_SwitchClearsSelection == lastOp.name = "switchCanvas" => selectedIds = <<>>

\* C6 witness: a switch made while placeholders were selected.
C6_Witness == lastOp.name = "switchCanvas" /\ lastOp.nsel > 0 /\ selectedIds = <<>>

\* C7: once every decode has completed, the canvas dimensions are those of the
\* active template's current source image, or 800x600 when it has none.
C7_NoStaleDecode ==
    (\A src \in 1..Len(pendingDecodes) : pendingDecodes[src] = 0) =>
        canvasDimensions = IF activeFrameSrc = NullSrc THEN DefaultCanvas
                           ELSE imageSize[activeFrameSrc]

\* C8: the initialPlaceholders seed is applied at first mount only; a later
\* change of the value the host supplies overwrites neither template.
C8_SeedOnce ==
    [][lastOp'.name = "hostSetsInitialPlaceholders" => Pair(layouts') = Pair(layouts)]_vars

\* C9: no onPlaceholdersChange call is made for a pointer-move frame of a
\* move or resize gesture.
C9_NoEmitWhileDragging == lastOp.name = "handleMouseMove" => ~emitted.flag

\* C10: in embedded mode every settled mutation of the active template is
\* followed by an onPlaceholdersChange call carrying the resulting
\* sequence, the empty sequence included.
C10_EmitEverySettled ==
    [][(/\ embedded
        /\ lastOp'.name \in {"addPlaceholder", "addPreset", "removeSelected", "paste",
                            "nudgeSelected", "alignSelected", "undo", "redo"}
        /\ ~crashed'
        /\ layouts'[activeCanvasIdx' + 1].ref # layouts[activeCanvasIdx + 1].ref) =>
          emitted'.flag /\ emitted'.value = layouts'[activeCanvasIdx' + 1].items]_vars

\* C11: onTemplateConfirm is called only by a confirm, at most once per
\* confirm, and exactly once for every settled confirm whose preconditions
\* hold (a template is flagged; both frames are present when both are flagged).
C11_ConfirmOnce ==
    /\ confirm.calls <= 1
    /\ confirm.calls > 0 => confirm.phase = "done"
    /\ (/\ confirm.phase \in {"done", "rejected", "failed"}
        /\ confirm.useA \/ confirm.useB
        /\ (confirm.useA /\ confirm.useB) =>
               (confirm.frames[1] # NullSrc /\ confirm.frames[2] # NullSrc))
       => confirm.calls = 1

\* C12: a confirm with both templates flagged and a frame missing is rejected:
\* onTemplateConfirm is not called and templates, selection, history and
\* cursor stay as they were.
C12_MergeNeedsFrames ==
    [][(/\ lastOp'.name \in {"handleConfirm", "confirmDecoded", "confirmRejected"}
        /\ confirm'.useA /\ confirm'.useB
        /\ confirm'.frames[1] = NullSrc \/ confirm'.frames[2] = NullSrc) =>
          /\ confirm'.phase = "rejected"
          /\ confirm'.calls = 0
          /\ layouts' = layouts
          /\ selectedIds' = selectedIds
          /\ history' = history
          /\ historyIndex' = historyIndex]_vars

\* C12 witness: the confirm button was clicked with both templates flagged and
\* filled, and a frame missing.
C12_Witness ==
    /\ lastOp.name = "handleConfirm"
    /\ confirm.useA /\ confirm.useB
    /\ confirm.frames[2] = NullSrc
    /\ Len(confirm.layouts[1]) > 0 /\ Len(confirm.layouts[2]) > 0
    /\ confirm.phase = "rejected"

\* C13: with one template flagged, onTemplateConfirm gets that template's
\* placeholders and the aspect ratio of that template's own source image.
C13_SingleExport ==
    LET own == IF confirm.useA THEN 1 ELSE 2
    IN  (/\ confirm.phase = "done"
         /\ confirm.useA # confirm.useB
         /\ Decodable(confirm.frames[own])) =>
            /\ confirm.args.placeholders = confirm.layouts[own]
            /\ confirm.args.ratio[1] * imageSize[confirm.frames[own]].height
                   = confirm.args.ratio[2] * imageSize[confirm.frames[own]].width

C15_MergedIdsDistinct ==
    (confirm.phase = "done" /\ confirm.useA /\ confirm.useB) =>
        \A i, j \in 1..Len(confirm.args.placeholders) :
            i # j => confirm.args.placeholders[i].id # confirm.args.placeholders[j].id

\* C16: in a move gesture, on each axis: when a test point of the selection's
\* bounding box (leading edge, trailing edge, center) is within the snap
\* threshold of a candidate line, the written position puts the test point of
\* the closest (test point, line) pair exactly on its line, the first pair in
\* iteration order winning a tie, and the axis has exactly one guide, at that
\* line; otherwise the written delta is the raw pointer delta and the axis
\* has no guide.
C16_SnapExact ==
    (lastOp.name = "handleMouseMove" /\ interaction.mode = "moving") =>
        LET init0 == interaction.initialPlaceholders
            notSel(p) == ~isSelected(p)
            sel == Filter(init0, isSelected)
            others == Filter(init0, notSel)
            axisOK(vertical) ==
                LET lo(p) == IF vertical THEN p.x ELSE p.y
                    hi(p) == IF vertical THEN p.x + p.width ELSE p.y + p.height
                    raw == IF vertical THEN pointer[1] - interaction.startNormX
                           ELSE pointer[2] - interaction.startNormY
                    thresh == IF vertical
                              THEN Div(SNAP_THRESHOLD_PX * ONE, canvasDimensions.width)
                              ELSE Div(SNAP_THRESHOLD_PX * ONE, canvasDimensions.height)
                    minE == SeqMin(MapSeq(sel, lo))
                    maxE == SeqMax(MapSeq(sel, hi))
                    base == <<minE, maxE, Div(minE + maxE, 2)>>
                    lines == SnapLines(others, vertical)
                    pairs == (1..Len(lines)) \X (1..3)
                    dist(q) == Abs(base[q[2]] + raw - lines[q[1]])
                    near == {q \in pairs : dist(q) < thresh}
                    written == lo(ById(placeholders, sel[1].id)) - lo(sel[1])
                    axisGuides == {i \in 1..Len(guides) :
                                     guides[i].type = IF vertical THEN "vertical"
                                                      ELSE "horizontal"}
                IN  /\ \A i \in 1..Len(sel) :
                          lo(ById(placeholders, sel[i].id)) = lo(sel[i]) + written
                    /\ IF near = {}
                       THEN written = raw /\ axisGuides = {}
                       ELSE \E q \in near :
                              /\ \A o \in near : dist(q) <= dist(o)
                              /\ \A o \in near : dist(o) = dist(q) =>
                                     (q[1] < o[1] \/ (q[1] = o[1] /\ q[2] <= o[2]))
                              /\ base[q[2]] + written = lines[q[1]]
                              /\ Cardinality(axisGuides) = 1
                              /\ \A i \in axisGuides : guides[i].pos = lines[q[1]]
        IN  (Len(sel) > 0 /\ \A i \in 1..Len(sel) : HasId(placeholders, sel[i].id)) =>
                axisOK(TRUE) /\ axisOK(FALSE)

\* C16 witness: the wide slot is dragged to where its left edge is 120 from
\* the canvas edge and its right edge 120 from the canvas center; it is
\* written at the canvas edge, with one vertical guide there, and its y is the
\* raw one.
C16_Witness ==
    /\ lastOp.name = "handleMouseMove" /\ interaction.mode = "moving"
    /\ selectedIds = <<0 - 2>>
    /\ pointer = <<3720, 5800>>
    /\ guides = <<[type |-> "vertical", pos |-> 0]>>
    /\ placeholders[1].x = 0 /\ placeholders[1].y = 3400

\* C17: distribute along an axis with n >= 3 selected placeholders leaves the
\* selected placeholders with the smallest and the largest leading edge
\* unchanged, changes nothing but the coordinate along the axis of the other
\* selected ones, and makes the gaps between the trailing edge of each
\* selected placeholder and the leading edge of the next (in the order of the
\* leading edges before the operation) equal, to the resolution 1/ONE of the
\* coordinates per gap.
C17_DistributeEqualGaps ==
    [][lastOp'.name = "distributeSelected" =>
        LET axis == lastOp'.arg
            lead(p) == IF axis = "horizontal" THEN p.x ELSE p.y
            size(p) == IF axis = "horizontal" THEN p.width ELSE p.height
            sorted == SortBy(selectedItems, lead)
            n == Len(sorted)
            after(i) == ById(placeholders', sorted[i].id)
            gapAfter(i) == lead(after(i + 1)) - (lead(after(i)) + size(after(i)))
        IN  n >= 3 =>
              /\ after(1) = sorted[1]
              /\ after(n) = sorted[n]
              /\ Len(placeholders') = Len(placeholders)
              /\ \A i \in 1..Len(placeholders) :
                    /\ ~isSelected(placeholders[i]) => placeholders'[i] = placeholders[i]
                    /\ placeholders'[i] =
                           IF axis = "horizontal"
                           THEN [placeholders[i] EXCEPT !.x = placeholders'[i].x]
                           ELSE [placeholders[i] EXCEPT !.y = placeholders'[i].y]
              /\ \A i, j \in 1..(n - 1) : Abs(gapAfter(i) - gapAfter(j)) < n - 1]_vars

\* C17 witness: the four stored slots were distributed vertically; the two
\* inner ones moved to gaps of 266, 266 and 268.
C17_Witness ==
    /\ lastOp.name = "distributeSelected" /\ lastOp.arg = "vertical"
    /\ Len(selectedIds) = 4
    /\ placeholders = <<Slot(0 - 4, 19200, 15000, 3600, 5000),
                        Slot(0 - 3, 6000, 11732, 4500, 3000),
                        Slot(0 - 2, 1200, 1200, 3000, 4000),
                        Slot(0 - 1, 13000, 5466, 2400, 6000)>>

\* C18 as stated: addPreset replaces the active template's whole sequence by
\* the preset's slots, all inside [0.05, 0.95] on both axes and not
\* overlapping; 2x2 gives four slots of 0.435 x 0.435 at (0.05, 0.05),
\* (0.485, 0.05), (0.05, 0.485) and (0.485, 0.485).
C18_PresetAsStated ==
    [][lastOp'.name = "addPreset" =>
        LET out == placeholders'
            lo == Div(5 * ONE, 100)
            hi == Div(95 * ONE, 100)
            count == CASE lastOp'.arg \in {"2x2", "strip4"} -> 4
                       [] lastOp'.arg = "1x1" -> 1
                       [] OTHER -> 3
        IN  /\ Len(out) = count
            /\ \A i \in 1..Len(out) : ~HasId(placeholders, out[i].id)
            /\ layouts'[2 - activeCanvasIdx] = layouts[2 - activeCanvasIdx]
            /\ \A i \in 1..Len(out) :
                  /\ lo <= out[i].x /\ out[i].x + out[i].width <= hi
                  /\ lo <= out[i].y /\ out[i].y + out[i].height <= hi
            /\ \A i, j \in 1..Len(out) :
                  i < j => \/ out[i].x + out[i].width <= out[j].x
                           \/ out[j].x + out[j].width <= out[i].x
                           \/ out[i].y + out[i].height <= out[j].y
                           \/ out[j].y + out[j].height <= out[i].y
            /\ lastOp'.arg = "2x2" =>
                  [i \in 1..4 |-> <<out[i].x, out[i].y, out[i].width, out[i].height>>]
                      = <<<<1200, 1200, 10440, 10440>>, <<11640, 1200, 10440, 10440>>,
                          <<1200, 11640, 10440, 10440>>, <<11640, 11640, 10440, 10440>>>>]_vars

\* C18 amended: as stated, except that the second column and the second row
\* of 2x2 start one gap after the first ends: the four slots are at
\* (0.05, 0.05), (0.515, 0.05), (0.05, 0.515) and (0.515, 0.515).
C18_PresetExact ==
    [][lastOp'.name = "addPreset" =>
        LET out == placeholders'
            lo == Div(5 * ONE, 100)
            hi == Div(95 * ONE, 100)
            count == CASE lastOp'.arg \in {"2x2", "strip4"} -> 4
                       [] lastOp'.arg = "1x1" -> 1
                       [] OTHER -> 3
        IN  /\ Len(out) = count
            /\ \A i \in 1..Len(out) : ~HasId(placeholders, out[i].id)
            /\ layouts'[2 - activeCanvasIdx] = layouts[2 - activeCanvasIdx]
            /\ \A i \in 1..Len(out) :
                  /\ lo <= out[i].x /\ out[i].x + out[i].width <= hi
                  /\ lo <= out[i].y /\ out[i].y + out[i].height <= hi
            /\ \A i, j \in 1..Len(out) :
                  i < j => \/ out[i].x + out[i].width <= out[j].x
                           \/ out[j].x + out[j].width <= out[i].x
                           \/ out[i].y + out[i].height <= out[j].y
                           \/ out[j].y + out[j].height <= out[i].y
            /\ lastOp'.arg = "2x2" =>
                  [i \in 1..4 |-> <<out[i].x, out[i].y, out[i].width, out[i].height>>]
                      = <<<<1200, 1200, 10440, 10440>>, <<12360, 1200, 10440, 10440>>,
                          <<1200, 12360, 10440, 10440>>, <<12360, 12360, 10440, 10440>>>>]_vars

\* C18 witness: 2x2 was applied to a template that held one freeform slot.
C18_Witness ==
    /\ lastOp.name = "addPreset" /\ lastOp.arg = "2x2"
    /\ Len(placeholders) = 4
    /\ placeholders[2].x = 12360 /\ placeholders[2].width = 10440
    /\ Len(history) >= 2
    /\ Len(history[Len(history) - 1][activeCanvasIdx + 1].items) = 1

\* C19: no step changes a saved layout record: its id, its name and the
\* placeholders it shows stay as they were saved, through every edit, load,
\* undo and redo on either template.
C19_SavedRecordKept ==
    [][/\ Len(savedLayouts') >= Len(savedLayouts)
       /\ \A k \in 1..Len(savedLayouts) :
             /\ savedLayouts'[k].id = savedLayouts[k].id
             /\ savedLayouts'[k].name = savedLayouts[k].name
             /\ SavedPlaceholders(k)' = SavedPlaceholders(k)]_vars

\* C19 witness: a layout was saved in this session and the template it was
\* saved from was nudged after that; the record shows the slots as saved.
C19_Witness ==
    /\ lastOp.name = "nudgeSelected"
    /\ Len(savedLayouts) = 3
    /\ savedLayouts[3].name = "mine"
    /\ SavedPlaceholders(3) # placeholders
    /\ Len(SavedPlaceholders(3)) = Len(placeholders)
    /\ \E i \in 1..Len(history) : history[i][activeCanvasIdx + 1] = savedLayouts[3].placeholders

\* C20: when the decode of the active template's source image fails, the
\* canvas dimensions become the default 800x600 and the pointer state machine
\* is left as it was.
C20_DecodeFailureDefaults ==
    [][(/\ lastOp'.name = "imgOnerror"
        /\ activeFrameSrc # NullSrc
        /\ pendingDecodes'[activeFrameSrc] < pendingDecodes[activeFrameSrc]) =>
          /\ canvasDimensions' = DefaultCanvas
          /\ interaction' = interaction
          /\ ~crashed']_vars

\* C21: a pointer-move appends no history entry; a release that ends a
\* gesture appends exactly one entry, the current template pair, when the
\* active template's placeholders differ from the gesture-start snapshot, and
\* none when they are equal.
C21_HistoryOnRelease ==
    [][/\ lastOp'.name = "handleMouseMove" =>
              history' = history /\ historyIndex' = historyIndex
       /\ (lastOp'.name = "handleMouseUp" /\ interaction.mode # "idle") =>
              IF placeholders # interaction.initialPlaceholders
              THEN /\ Len(history') >= 1
                   /\ history'[Len(history')] = layouts
                   /\ SubSeq(history', 1, Len(history') - 1)
                          = SubSeq(history, 1, Len(history') - 1)
                   /\ historyIndex = Len(history) - 1 => Len(history') = Len(history) + 1
                   /\ historyIndex' = historyIndex + 1
              ELSE history' = history /\ historyIndex' = historyIndex]_vars

\* C21 witness: a gesture moved the first slot away and back to where it
\* started before the release; the history is the one before the gesture.
C21_Witness ==
    /\ lastOp.name = "handleMouseUp"
    /\ Len(history) = 2
    /\ nextRef >= 3
    /\ history[2][activeCanvasIdx + 1].ref # layouts[activeCanvasIdx + 1].ref
    /\ history[2][activeCanvasIdx + 1].items = placeholders

\* C22: every placeholder of both templates has x, y, width and height in
\* [0, 1].
C22_InUnitRange ==
    \A t \in 1..2 : \A i \in 1..Len(layouts[t].items) :
        LET p == layouts[t].items[i]
        IN  /\ 0 <= p.x /\ p.x <= ONE
            /\ 0 <= p.y /\ p.y <= ONE
            /\ 0 <= p.width /\ p.width <= ONE
            /\ 0 <= p.height /\ p.height <= ONE

\* C23: every placeholder of the active template with an aspect-ratio lock
\* rw:rh has (width * canvas width) / (height * canvas height) = rw / rh for
\* the current canvas dimensions, to the resolution 1/ONE of the height.
C23_LockKept ==
    \A i \in 1..Len(placeholders) :
        LET p == placeholders[i]
            r == ParseRatio(p.aspectRatio)
        IN  p.aspectRatio # "null" =>
                Abs(p.width * canvasDimensions.width * r[2]
                    - p.height * canvasDimensions.height * r[1])
                    < canvasDimensions.height * r[1]

\* C24: within one template no two placeholders share an id.
C24_IdsDistinct ==
    \A t \in 1..2 : \A i, j \in 1..Len(layouts[t].items) :
        i # j => layouts[t].items[i].id # layouts[t].items[j].id

\* C25: no operation raises an error or leaves the template pair undefined:
\* no handler throws, no promise of a handler is rejected unhandled, and the
\* component never renders an undefined template pair.
C25_NothingFatal ==
    /\ ~crashed
    /\ lastOp.arg # "TypeError"
    /\ confirm.phase # "failed"

\* C26: a fresh session has a history of one entry, the pair of empty
\* templates, and cursor 0; undo at cursor 0 and redo at the last entry
\* leave the templates, the selection, the history and the cursor unchanged.
C26_HistoryBoundaries ==
    /\ Len(history) = 1
    /\ history[1][1].items = <<>> /\ history[1][2].items = <<>>
    /\ historyIndex = 0
    /\ [][(\/ lastOp'.name = "undo" /\ historyIndex = 0
           \/ lastOp'.name = "redo" /\ historyIndex = Len(history) - 1)
          => /\ layouts' = layouts
             /\ selectedIds' = selectedIds
             /\ history' = history
             /\ historyIndex' = historyIndex]_vars

\* Redo pressed right after a slot was added: the cursor is on the last
\* entry and the new slot stays selected.
C26_Witness ==
    /\ lastOp.name = "redo"
    /\ Len(history) = 2 /\ historyIndex = 1
    /\ Len(selectedIds) = 1
    /\ Len(placeholders) = 1

\* C27: within one gesture the geometry a pointer-move writes depends only
\* on the gesture-start snapshot, the selection, the active handle, the
\* canvas dimensions and the current pointer: whatever moves came before,
\* the placeholders after a move are those the same move writes over the
\* untouched snapshot.
C27_NoDrift ==
    [][lastOp'.name = "handleMouseMove" =>
         LET w == MoveWrite(interaction.initialPlaceholders, pointer'[1], pointer'[2])
         IN  IF w.write THEN placeholders' = w.items
             ELSE placeholders' = placeholders]_vars

\* A second move of the same drag, away from where the first one left the
\* slot.
C27_Witness ==
    /\ lastOp.name = "handleMouseMove"
    /\ interaction.mode = "moving"
    /\ nextRef >= 3
    /\ Len(selectedIds) = 1
    /\ placeholders # interaction.initialPlaceholders

\* C28: the mode becomes 'resizing' only from 'idle', and only by a
\* pointer-down with exactly one placeholder selected that lies within the
\* hit tolerance of one of that placeholder's eight handles; no resize
\* geometry is written while the selection size differs from one.
C28_ResizeEntry ==
    [][/\ (interaction'.mode = "resizing" /\ interaction.mode # "resizing") =>
            /\ interaction.mode = "idle"
            /\ lastOp'.name = "handleMouseDown"
            /\ Len(selectedIds) = 1
            /\ HasId(placeholders, selectedIds[1])
            /\ \E i \in 1..Len(Handles) :
                   /\ interaction'.activeHandle = Handles[i]
                   /\ HandleHit(ById(placeholders, selectedIds[1]), Handles[i],
                                interaction'.startNormX, interaction'.startNormY)
       /\ (lastOp'.name = "handleMouseMove" /\ interaction.mode = "resizing"
             /\ Len(selectedIds) # 1) => layouts' = layouts]_vars

\* C29: snap guides exist only during a gesture: in every idle state the
\* guide list is empty, every pointer-up or pointer-leave sets the mode to
\* 'idle' and empties the guide list, and there is never more than one
\* vertical nor more than one horizontal guide.
C29_GuidesOnlyInGesture ==
    /\ [](interaction.mode = "idle" => guides = <<>>)
    /\ [](\A i, j \in 1..Len(guides) : guides[i].type = guides[j].type => i = j)
    /\ [][lastOp'.name = "handleMouseUp" =>
            interaction'.mode = "idle" /\ guides' = <<>>]_vars

\* A drag that has snapped on both axes at once: one vertical and one
\* horizontal guide are shown.
C29_Witness ==
    /\ lastOp.name = "handleMouseMove" /\ interaction.mode # "idle"
    /\ Len(guides) = 2
    /\ guides[1].type = "vertical" /\ guides[2].type = "horizontal"

\* C30 as stated: whatever else lies under the pointer, a pointer-down on a
\* placeholder body (the last placeholder in sequence order containing the
\* pointer) without modifier selects exactly that placeholder if it was
\* unselected and leaves the selection alone if it was selected, with the
\* additive modifier toggles its id; on empty canvas it clears the selection
\* without modifier and leaves it alone with the modifier.
C30_SelectionAsStated ==
    [][\A at \in PressPoints, shiftKey \in BOOLEAN :
         handleMouseDown(at[1], at[2], shiftKey) =>
           LET bodies == {i \in 1..Len(placeholders) : BodyHit(placeholders[i], at[1], at[2])}
               top == placeholders[CHOOSE i \in bodies : \A j \in bodies : j <= i]
               before == {selectedIds[i] : i \in 1..Len(selectedIds)}
               after == {selectedIds'[i] : i \in 1..Len(selectedIds')}
           IN  IF bodies = {}
               THEN after = (IF shiftKey THEN before ELSE {})
               ELSE IF shiftKey
               THEN after = (IF top.id \in before THEN before \ {top.id}
                             ELSE before \cup {top.id})
               ELSE after = (IF top.id \in before THEN before ELSE {top.id})]_vars

\* C30: the same rule for every pointer-down that does not land on a handle
\* of the only selected placeholder; a pointer-down on such a handle starts
\* a resize and leaves the selection unchanged, whatever body or empty
\* canvas lies under it.
C30_SelectionRule ==
    [][\A at \in PressPoints, shiftKey \in BOOLEAN :
         handleMouseDown(at[1], at[2], shiftKey) =>
           LET bodies == {i \in 1..Len(placeholders) : BodyHit(placeholders[i], at[1], at[2])}
               top == placeholders[CHOOSE i \in bodies : \A j \in bodies : j <= i]
               before == {selectedIds[i] : i \in 1..Len(selectedIds)}
               after == {selectedIds'[i] : i \in 1..Len(selectedIds')}
               onHandle == /\ Len(selectedIds) = 1
                           /\ HasId(placeholders, selectedIds[1])
                           /\ \E i \in 1..Len(Handles) :
                                  HandleHit(ById(placeholders, selectedIds[1]),
                                            Handles[i], at[1], at[2])
           IN  IF onHandle
               THEN after = before /\ interaction'.mode = "resizing"
               ELSE IF bodies = {}
               THEN after = (IF shiftKey THEN before ELSE {})
               ELSE IF shiftKey
               THEN after = (IF top.id \in before THEN before \ {top.id}
                             ELSE before \cup {top.id})
               ELSE after = (IF top.id \in before THEN before ELSE {top.id})]_vars

\* A press without modifier where the two slots overlap, with the lower
\* slot selected before: the upper slot, the last of the sequence, is the
\* selection.
C30_Witness ==
    /\ lastOp.name = "handleMouseDown" /\ lastOp.arg = "" /\ lastOp.nsel = 1
    /\ interaction.mode = "moving"
    /\ interaction.startNormX = 9600 /\ interaction.startNormY = 9600
    /\ Len(placeholders) = 2
    /\ selectedIds = <<placeholders[2].id>>
\* C31: during a resize by a handle that includes 'l' the right edge
\* x + width of the resized placeholder equals its gesture-start value, and
\* by a handle that includes 't' the bottom edge y + height equals its
\* gesture-start value, for every pointer delta, clamped by the minimum
\* size or not, and for free and aspect-locked placeholders alike.
C31_OppositeEdgePinned ==
    [][(/\ lastOp'.name = "handleMouseMove"
        /\ interaction.mode = "resizing"
        /\ Len(selectedIds) = 1
        /\ HasId(interaction.initialPlaceholders, selectedIds[1])) =>
         LET init == ById(interaction.initialPlaceholders, selectedIds[1])
             p == ById(placeholders', selectedIds[1])
             handle == interaction.activeHandle
         IN  /\ HasL(handle) => p.x + p.width = init.x + init.width
             /\ HasT(handle) => p.y + p.height = init.y + init.height]_vars

\* An aspect-locked slot pulled by its top-left corner beyond the minimum
\* size: the width is clamped and the height follows the lock.
C31_Witness ==
    /\ lastOp.name = "handleMouseMove"
    /\ interaction.mode = "resizing" /\ interaction.activeHandle = "tl"
    /\ selectedIds = <<0 - 1>>
    /\ placeholders[2].aspectRatio # "null"
    /\ placeholders[2].width = MIN_SLOT_SIZE
    /\ placeholders[2].height # interaction.initialPlaceholders[2].height
\* C32: align with exactly one selected placeholder positions it against
\* the canvas (left x = 0, right x = 1 - width, center x = 0.5 - width/2,
\* top y = 0, bottom y = 1 - height, middle y = 0.5 - height/2); with two or
\* more selected placeholders each is positioned against the bounding box
\* the selected placeholders had before the operation; only the coordinate
\* on the aligned axis of selected placeholders changes, sizes and
\* unselected placeholders are unchanged.
C32_AlignTargets ==
    [][lastOp'.name = "alignSelected" =>
         LET a == lastOp'.arg
             sel == {i \in 1..Len(placeholders) : Includes(selectedIds, placeholders[i].id)}
             lo(S) == CHOOSE v \in S : \A w \in S : v <= w
             hi(S) == CHOOSE v \in S : \A w \in S : v >= w
             left == IF Cardinality(sel) = 1 THEN 0
                     ELSE lo({placeholders[i].x : i \in sel})
             right == IF Cardinality(sel) = 1 THEN ONE
                      ELSE hi({placeholders[i].x + placeholders[i].width : i \in sel})
             top == IF Cardinality(sel) = 1 THEN 0
                    ELSE lo({placeholders[i].y : i \in sel})
             bottom == IF Cardinality(sel) = 1 THEN ONE
                       ELSE hi({placeholders[i].y + placeholders[i].height : i \in sel})
             wantX(p) == CASE a = "left" -> left
                           [] a = "right" -> right - p.width
                           [] a = "center" -> Div(left + right, 2) - Div(p.width, 2)
                           [] OTHER -> p.x
             wantY(p) == CASE a = "top" -> top
                           [] a = "bottom" -> bottom - p.height
                           [] a = "middle" -> Div(top + bottom, 2) - Div(p.height, 2)
                           [] OTHER -> p.y
         IN  /\ Len(placeholders') = Len(placeholders)
             /\ \A i \in 1..Len(placeholders) :
                    placeholders'[i] =
                        IF i \in sel
                        THEN [placeholders[i] EXCEPT !.x = wantX(placeholders[i]),
                                                     !.y = wantY(placeholders[i])]
                        ELSE placeholders[i]]_vars

\* Three of the four slots aligned right: their right edges meet at the
\* right edge of their bounding box, inside the canvas, and the fourth slot
\* is where it was loaded.
C32_Witness ==
    /\ lastOp.name = "alignSelected" /\ lastOp.arg = "right"
    /\ Len(selectedIds) = 3 /\ Len(placeholders) = 4
    /\ placeholders[1] = DistributeLayouts[1].placeholders.items[1]
    /\ \A i \in 2..4 : placeholders[i].x + placeholders[i].width = 15400
\* C33: paste appends one clone per clipboard item to the active template,
\* each with an id that no placeholder of the template and no other clone
\* has, the size, lock and fit captured at copy time and the copied position
\* shifted by +0.02 on both axes, and every clone satisfies
\* 0 <= x <= 1 - width and 0 <= y <= 1 - height.
C33_PasteClones ==
    [][lastOp'.name = "paste" =>
         LET n == Len(placeholders)
             offset == Div(2 * ONE, 100)
             clone(i) == placeholders'[n + i]
         IN  /\ Len(placeholders') = n + Len(clipboard)
             /\ SubSeq(placeholders', 1, n) = placeholders
             /\ \A i \in 1..Len(clipboard) :
                    /\ ~HasId(placeholders, clone(i).id)
                    /\ \A j \in 1..Len(clipboard) : clone(j).id = clone(i).id => j = i
                    /\ clone(i) = [clipboard[i] EXCEPT
                                     !.id = clone(i).id,
                                     !.x = Min(ONE - clipboard[i].width, clipboard[i].x + offset),
                                     !.y = Min(ONE - clipboard[i].height, clipboard[i].y + offset)]
                    /\ 0 <= clone(i).x /\ clone(i).x <= ONE - clone(i).width
                    /\ 0 <= clone(i).y /\ clone(i).y <= ONE - clone(i).height]_vars
\* C34: switching the active template leaves both templates' placeholder
\* sequences, the history sequence and the cursor unchanged, and an undo
\* issued right after a switch restores the history entry below the cursor
\* as it was before the switch.
C34_SwitchKeepsTimeline ==
    [][/\ lastOp'.name = "switchCanvas" =>
            /\ layouts' = layouts
            /\ history' = history
            /\ historyIndex' = historyIndex
            /\ activeCanvasIdx' = (IF lastOp'.arg = "A" THEN 0 ELSE 1)
            /\ selectedIds' = <<>>
       /\ (lastOp.name = "switchCanvas" /\ lastOp'.name = "undo"
             /\ historyIndex > 0 /\ historyIndex <= Len(history)) =>
            /\ layouts' = history[historyIndex]
            /\ historyIndex' = historyIndex - 1
            /\ history' = history]_vars

\* The operator loaded a layout into Template A, nudged it, switched to
\* Template B and pressed undo there: Template A is back as loaded.
C34_Witness ==
    /\ lastOp.name = "undo"
    /\ activeCanvasIdx = 1
    /\ historyIndex = 1 /\ Len(history) = 3
    /\ layouts = history[2]
    /\ layouts[1].items # <<>> /\ layouts[1] # history[3][1]
\* C35: only undo and redo may change the inactive template: across every
\* other step, an editing operation or what follows from it, the placeholder
\* sequence of the template that is not active is the same before and after.
C35_InactiveUntouched ==
    [][lastOp'.name \notin {"undo", "redo"} =>
         \A t \in 1..2 : t # activeCanvasIdx + 1 => layouts'[t].items = layouts[t].items]_vars
\* C36: whenever the interaction mode is 'idle', the cursor is an index of
\* the history and the current template pair equals the history entry at
\* the cursor.
C36_PairIsCursorEntry ==
    interaction.mode = "idle" =>
        /\ historyIndex + 1 \in 1..Len(history)
        /\ Pair(layouts) = Pair(history[historyIndex + 1])
\* C37: in every reachable state each selected id is the id of a
\* placeholder of the active template.
C37_SelectionInTemplate ==
    \A i \in 1..Len(selectedIds) : HasId(placeholders, selectedIds[i])
\* C38: with a host that stores each emitted list and passes it back as
\* initialPlaceholders, the seed/emit exchange terminates.  The host's
\* answer is the only step of the exchange and what it does depends on
\* nothing but the state below, so termination requires that no answer to
\* an emission puts the designer back where it emitted from, the same
\* placeholders in both templates, the same list emitted again: from there
\* the exchange would repeat without end.
C38_ExchangeTerminates ==
    [][(/\ lastOp'.name = "hostSetsInitialPlaceholders"
        /\ emitted.flag
        /\ initialPlaceholders' = emitted.value) =>
          ~(/\ emitted'.flag
            /\ emitted'.value = emitted.value
            /\ initialPlaceholders' = initialPlaceholders
            /\ Pair(layouts') = Pair(layouts)
            /\ selectedIds' = selectedIds
            /\ activeCanvasIdx' = activeCanvasIdx
            /\ history' = history /\ historyIndex' = historyIndex
            /\ interaction' = interaction
            /\ captured' = captured)]_vars
\* C39: when keyboard operations come between the pointer-down and the
\* pointer-up of a gesture, the release appends at most one history entry,
\* never one equal to the entry that was at the cursor, and leaves the
\* cursor an index of the history.
C39_ReleaseAfterKeys ==
    [][(lastOp'.name = "handleMouseUp" /\ interaction.mode # "idle") =>
         /\ Len(history') <= Len(history) + 1
         /\ (history' # history /\ historyIndex + 1 \in 1..Len(history)) =>
                Pair(history'[Len(history')]) # Pair(history[historyIndex + 1])
         /\ historyIndex' + 1 \in 1..Len(history')]_vars
\* C40: within one polling session, from a startPolling call until the
\* next one, each image file name of the folder is handed to onNewPhotos at
\* most once, whatever the interleaving of the polls.
C40_DeliveredOnce ==
    \A i \in 1..Len(FolderEntries) : hotFolder.delivered[i] <= 1
====
